---- MODULE Spec2Model ----
(***************************************************************************)
(* A model of the concurrent batch operations of src/app/your_code.py:     *)
(* batch_vote (thread pool + ordered output buffer + counters), the        *)
(* voting classifier vote_do, the user cache of UsernamePostSearcher,      *)
(* batch_vote_gui and crawl_and_save_posts.  Each operation has its own    *)
(* specification (SpecVote, SpecSearch, SpecGui, SpecCrawl, SpecClassify); *)
(* Spec runs any one of the four pool operations.  The sequential page     *)
(* crawlers (SpecSeq), the single-task votes (SpecSingle) and              *)
(* MainScreen.run_task of src/main.py (SpecRunTask) follow them, then      *)
(* manual_browse_posts with the pagination state (SpecBrowse), the login   *)
(* of the GUI (SpecLogin), login_state.json (SpecState) and the log panel  *)
(* of MainScreen (SpecLog, SpecLogFair).                                   *)
(*                                                                         *)
(* Encoding.  Python strings that the code only passes along are TLA+      *)
(* strings.  A message the code searches with `in` is a sequence of        *)
(* tokens, one token per character that matters: "yi","tou" stands for     *)
(* the two characters of the marker U+5DF2 U+6295, "chong","fu" for        *)
(* U+91CD U+590D and "tou","guo" for U+6295 U+8FC7.  Codes are kept as     *)
(* the strings "1", "0", "2", "500", ... ; "None" is Python's None.        *)
(* Console output (print) and ResultSaver.save_record do not raise:        *)
(* save_record catches every Exception itself (lines 67-72); SpecVoteSave  *)
(* runs batch_vote on a disk where its appends can fail.                   *)
(***************************************************************************)
EXTENDS Integers, Sequences, FiniteSets, TLC

\* ------------------------------------------------------------------ bounds
MaxTasks == 3
FirstId == 4
MaxPages == 2
MaxPosts == 1
MaxWorkers == 2
MaxBrowse == 3
MaxLogins == 2
MaxGuiTasks == 2
MaxTime == 3
Lifetime == 2
MaxLoads == 2
MaxMessages == 6
LogLimit == 3
LogKeep == 2

\* --------------------------------------------------------- program constants
recommended_threads == 100
MinThreads == 10
MaxThreads == 500

VARIABLES
    run,              \* which operation this behaviour executes
    task_ids,         \* list(range(start, end + 1))
    threads,          \* max_workers of the ThreadPoolExecutor
    check_first,      \* batch_vote: probe before voting
    pcMain,           \* position of the calling thread
    pc,               \* position of each task (future) of the pool
    local,            \* process_task locals: (result_type, code, msg, data)
    output_order, next_output_idx, output_lock, output_buffer,
    success_count, already_count, failed_count, success_ids, already_ids,
    results,          \* results dict, written under results_lock
    printed,          \* task ids in the order flush_output printed them
    records,          \* the records ResultSaver.save_record received, in order
    reported,         \* arguments of saver.finalize, once called
    resp,             \* history: the remote response each task's vote_do saw
    vote_calls,       \* history: number of vote_do calls per task
    probe,            \* history: the remote response each task's vote_check saw
    inserts,          \* history: number of output_buffer insertions per task
    raised,           \* history: tasks whose try body raised
    \* UsernamePostSearcher
    user_cache,       \* user id -> the cached dict
    found_users, seen_user_ids,
    lock,             \* self.lock
    sloc,             \* search_page locals: posts left, user_id, full_info
    fetches,          \* history: calls of get_complete_user_info per user id
    \* batch_vote_gui and crawl_and_save_posts
    results_lock,     \* results_lock of the two functions
    page_results, total_posts, failed_pages, saved_count,
    collected,        \* the futures as_completed has yielded, in that order
    \* crawl_user_posts_gui and search_and_save_posts_gui
    page,             \* the loop variable
    last_result,      \* what the last page request returned
    requested,        \* history: the pages requested, in order
    total_saved, actual_pages_crawled,
    \* MainScreen.run_task
    builtins_print,   \* builtins.print
    old_print,        \* the old_print of each wrapper
    \* the pagination state of the spider
    current_page, has_more,
    \* ResultSaver
    disk,             \* whether appends to the results file can fail in this run
    save_failed,      \* history: tasks whose save_record could not write
    \* manual_browse_posts
    browse_pc,        \* position of the console thread in manual_browse_posts
    browse_result,    \* what get_next_page returned last
    browse_fetched,   \* history: the pages get_next_page asked get_posts for
    \* BDSMApp, LoginScreen and MainScreen
    app_token,        \* app.token
    screen,           \* the screen in root_widget
    pending,          \* the screen switches scheduled on the Clock
    logins,           \* the login threads: kind, token, position
    gui_tasks,        \* the run_task calls: require_login, position
    validated,        \* history: tokens test_token_valid has returned True for
    \* the login state file of the spider
    state_file,       \* login_state.json: absent, or token and expire_time
    now,              \* time.time()
    loaded,           \* history: what each load_login_state call returned
    \* the log of MainScreen
    log_buffer,       \* self._log_buffer
    log_update_scheduled,
    log_lines,        \* self._log_lines
    flush_events,     \* the _flush_log_buffer events waiting on the Clock
    logged,           \* history: the number of messages passed to log
    moved,            \* history: the messages appended to _log_lines, in order
    displayed         \* history: the messages log_text.text has shown

voteVars == <<check_first, probe, local, output_order, next_output_idx, output_lock,
              output_buffer, success_count, already_count, failed_count,
              success_ids, already_ids, results, printed, records, reported,
              resp, vote_calls, inserts, raised>>
searchVars == <<user_cache, found_users, seen_user_ids, lock, sloc, fetches>>
poolVars == <<run, task_ids, threads, pcMain, pc>>
crawlVars == <<results_lock, page_results, total_posts, failed_pages, saved_count,
               collected>>
seqVars == <<page, last_result, requested, total_saved, actual_pages_crawled>>
guiVars == <<builtins_print, old_print>>
pageVars == <<current_page, has_more>>
browseVars == <<browse_pc, browse_result, browse_fetched>>
saverVars == <<disk, save_failed>>
loginVars == <<app_token, screen, pending, logins, gui_tasks, validated>>
stateVars == <<state_file, now, loaded>>
logVars == <<log_buffer, log_update_scheduled, log_lines, flush_events, logged,
             moved, displayed>>
uiVars == <<browseVars, loginVars, stateVars, logVars>>
appVars == <<saverVars, uiVars>>
vars == <<poolVars, voteVars, searchVars, crawlVars, seqVars, guiVars, pageVars, appVars>>

\* ------------------------------------------------------------- helper values
Free == 0                       \* a threading.Lock nobody holds
NoneMsg == <<"None">>           \* a msg that is not a str (JSON null)
EmptyStr == <<>>                \* ""

Ids == FirstId .. (FirstId + MaxTasks - 1)

Range(a, b) == [i \in 1 .. (b - a + 1) |-> a + i - 1]

SeqToSet(s) == {s[i] : i \in 1 .. Len(s)}

Max(a, b) == IF a >= b THEN a ELSE b
Min(a, b) == IF a <= b THEN a ELSE b

\* ------------------------------------------------------------ remote replies
\* What requests.post can do: raise (timeout, refused), or return a status
\* and a body that is malformed or a JSON object with code / msg / data.
Malformed == [json |-> FALSE, code |-> "None", msg |-> EmptyStr, data |-> ""]
Body(c, m, d) == [json |-> TRUE, code |-> c, msg |-> m, data |-> d]
NetError(e) == [kind |-> "exc", err |-> e, status |-> "0", body |-> Malformed]
Http(s, b) == [kind |-> "http", err |-> "", status |-> s, body |-> b]

Codes == {"1", "0", "2", "None"}
Msgs == { EmptyStr, NoneMsg,
          <<"yi", "tou">>, <<"nin", "yi", "tou", "guo">>,
          <<"chong", "fu", "tou", "piao">>, <<"tou", "guo", "le">>,
          <<"yi", "guo", "tou">>, <<"ok">> }
Statuses == {"200", "404", "500"}
Bodies == {Malformed} \cup {Body(c, m, "") : c \in Codes, m \in Msgs}
Responses == {NetError("timeout"), NetError("refused")}
             \cup {Http(s, b) : s \in Statuses, b \in Bodies}

\* The replies the batch runs draw from: one of each class.
BatchResponses == { Http("200", Body("1", <<"ok">>, "")),
                    Http("200", Body("0", <<"yi", "tou">>, "")),
                    Http("200", Body("0", <<"ok">>, "")),
                    NetError("timeout") }

\* The replies a probe (vote_check) draws from: the task is valid, it is not,
\* the request fails.
ProbeResponses == { Http("200", Body("1", <<"ok">>, "")),
                    Http("200", Body("0", <<"ok">>, "")),
                    NetError("timeout") }

\* ---------------------------------------------------------------- classifier
Markers == << <<"yi", "tou">>, <<"chong", "fu">>, <<"tou", "guo">> >>

\* Python's `marker in msg` on str.
Contains(msg, m) ==
    \E i \in 1 .. (Len(msg) - Len(m) + 1) : SubSeq(msg, i, i + Len(m) - 1) = m

HasMarker_first(msg) == Contains(msg, Markers[1])

HasMarker(msg) ==
    Contains(msg, Markers[1]) \/ Contains(msg, Markers[2]) \/ Contains(msg, Markers[3])

\* The except branch of vote_do / vote_check: the f-string "request error: " + str(e).
RequestError(e) == <<"request error", e>>

\* vote_do: (success, status, code, msg, data)
vote_do(r) ==
    IF r.kind = "exc" THEN <<FALSE, RequestError(r.err), "0", EmptyStr, "">>
    ELSE IF r.status # "200" THEN <<FALSE, <<"HTTP not 200">>, r.status, EmptyStr, "">>
    ELSE IF ~r.body.json THEN <<FALSE, RequestError("json"), "0", EmptyStr, "">>
    ELSE LET code == r.body.code
             msg == r.body.msg
             data == r.body.data
         IN  IF code = "1" THEN <<TRUE, <<"vote ok">>, code, msg, data>>
             ELSE IF code = "0" /\ msg = NoneMsg
                  THEN <<FALSE, RequestError("TypeError"), "0", EmptyStr, "">>
             ELSE IF code = "0" /\ HasMarker(msg)
                  THEN <<TRUE, <<"already voted">>, code, msg, data>>
             ELSE <<FALSE, <<"vote failed">>, code, msg, data>>

\* vote_check: (valid, msg, code, data)
vote_check(r) ==
    IF r.kind = "exc" THEN <<FALSE, RequestError(r.err), "0", "">>
    ELSE IF r.status # "200" THEN <<FALSE, <<"HTTP not 200">>, r.status, "">>
    ELSE IF ~r.body.json THEN <<FALSE, RequestError("json"), "0", "">>
    ELSE <<r.body.code = "1", r.body.msg, r.body.code, r.body.data>>

\* Tuple unpacking into n targets raises ValueError unless the lengths agree.
UnpackRaises(n, tuple) == Len(tuple) # n

ResultOf_merged(ret) ==
    IF ret[1] /\ ret[3] = "1" THEN <<"success", ret[3], ret[4], ret[5]>>
    ELSE <<"failed", ret[3], ret[4], ret[5]>>

ResultOf_first(ret) ==
    IF ret[1]
    THEN IF ret[3] = "1" /\ success_count = 0 THEN <<"success", ret[3], ret[4], ret[5]>>
                                              ELSE <<"already", ret[3], ret[4], ret[5]>>
    ELSE <<"failed", ret[3], ret[4], ret[5]>>

\* The choice of result_type in process_task from vote_do's tuple.
ResultOf(ret) ==
    IF ret[1]
    THEN IF ret[3] = "1" THEN <<"success", ret[3], ret[4], ret[5]>>
                         ELSE <<"already", ret[3], ret[4], ret[5]>>
    ELSE <<"failed", ret[3], ret[4], ret[5]>>

\* The except branch of process_task.
HandlerResult == <<"failed", "0", <<"processing error">>, "">>

\* The locals process_task starts with.
InitialLocal == <<"failed", "0", <<"unknown error">>, "">>

NoResp == [kind |-> "none", err |-> "", status |-> "0", body |-> Malformed]

\* ------------------------------------------------------------ the thread pool
Tasks == SeqToSet(task_ids)

IndexOf(t) == CHOOSE i \in 1 .. Len(task_ids) : task_ids[i] = t

Running == {t \in Tasks : pc[t] \notin {"new", "queued", "done"}}

AllDone_first == \E t \in Tasks : pc[t] = "done"

AllDone == \A t \in Tasks : pc[t] = "done"

\* executor.submit in the list comprehension: one future per task id, in order.
Submit ==
    /\ pcMain = "submit"
    /\ \E t \in Tasks :
          /\ pc[t] = "new"
          /\ \A u \in Tasks : IndexOf(u) < IndexOf(t) => pc[u] # "new"
          /\ pc' = [pc EXCEPT ![t] = "queued"]
          /\ pcMain' = IF \A u \in Tasks \ {t} : pc[u] # "new" THEN "wait" ELSE "submit"
    /\ UNCHANGED <<crawlVars, searchVars, seqVars, guiVars, pageVars, appVars, run, task_ids, threads, voteVars>>

CanStart_unbounded(t) ==
    /\ pc[t] = "queued"
    /\ \A u \in Tasks : IndexOf(u) < IndexOf(t) => pc[u] # "queued"

\* A worker thread takes the oldest queued work item; the executor never has
\* more than max_workers threads.
CanStart(t) ==
    /\ pc[t] = "queued"
    /\ \A u \in Tasks : IndexOf(u) < IndexOf(t) => pc[u] # "queued"
    /\ Cardinality(Running) < threads

\* ------------------------------------------------------------- batch_vote
\* process_task entered by a worker: result_type = "failed", code, msg, data.
StartTask(t) ==
    /\ run = "batch_vote"
    /\ CanStart(t)
    /\ pc' = [pc EXCEPT ![t] = IF check_first THEN "check" ELSE "vote"]
    /\ local' = [local EXCEPT ![t] = InitialLocal]
    /\ UNCHANGED <<crawlVars, searchVars, seqVars, guiVars, pageVars, appVars, run, task_ids, threads, pcMain, check_first, probe, output_order,
                   next_output_idx, output_lock, output_buffer, success_count,
                   already_count, failed_count, success_ids, already_ids, results,
                   printed, records, reported, resp, vote_calls, inserts, raised>>

\* Where control goes after the except branch of process_task: on to the
\* insertion under output_lock.
HandlerNext_return == "done"

HandlerNext_vote == "vote"

HandlerNext == "lock"

\* check_first: vote_check's tuple is unpacked into five names.  When the
\* unpacking raises, control goes to the except branch of process_task; when
\* the probe says invalid the task keeps the probe's code and message and
\* takes the early insert / flush / return, which is the same sequence as
\* the one at the end of process_task.
VoteCheck(t) ==
    /\ run = "batch_vote"
    /\ pc[t] = "check"
    /\ \E r \in ProbeResponses :
          LET ret == vote_check(r)
          IN  /\ probe' = [probe EXCEPT ![t] = r]
              /\ IF UnpackRaises(5, ret)
                 THEN /\ local' = [local EXCEPT ![t] = HandlerResult]
                      /\ raised' = raised \cup {t}
                      /\ pc' = [pc EXCEPT ![t] = HandlerNext]
                 ELSE IF ~ret[1]
                 THEN /\ local' = [local EXCEPT ![t] = <<"failed", ret[3], ret[4], ret[5]>>]
                      /\ raised' = raised
                      /\ pc' = [pc EXCEPT ![t] = "lock"]
                 ELSE /\ UNCHANGED <<local, raised>>
                      /\ pc' = [pc EXCEPT ![t] = "vote"]
    /\ UNCHANGED <<crawlVars, searchVars, seqVars, guiVars, pageVars, appVars, run, task_ids, threads, pcMain, check_first, output_order,
                   next_output_idx, output_lock, output_buffer, success_count,
                   already_count, failed_count, success_ids, already_ids, results,
                   printed, records, reported, resp, vote_calls, inserts>>

AfterVote_retry(ret) == IF ret[1] THEN "lock" ELSE "vote"

\* Where control goes once result_type is chosen: whatever vote_do returned,
\* on to the insertion under output_lock; no branch leads back to vote_do.
AfterVote(ret) == "lock"

\* vote_do and the choice of result_type.
VoteDo(t) ==
    /\ run = "batch_vote"
    /\ pc[t] = "vote"
    /\ \E r \in BatchResponses :
          /\ resp' = [resp EXCEPT ![t] = r]
          /\ vote_calls' = [vote_calls EXCEPT ![t] = @ + 1]
          /\ local' = [local EXCEPT ![t] = ResultOf(vote_do(r))]
          /\ pc' = [pc EXCEPT ![t] = AfterVote(vote_do(r))]
    /\ UNCHANGED <<crawlVars, searchVars, seqVars, guiVars, pageVars, appVars, run, task_ids, threads, pcMain, check_first, probe, output_order,
                   next_output_idx, output_lock, output_buffer, success_count,
                   already_count, failed_count, success_ids, already_ids, results,
                   printed, records, reported, inserts, raised>>

\* with output_lock: (entry)
LockFree_own(l) == TRUE

LockFree(l) == l = Free

AcquireOutput(t) ==
    /\ run = "batch_vote"
    /\ pc[t] = "lock"
    /\ LockFree(output_lock)
    /\ output_lock' = t
    /\ pc' = [pc EXCEPT ![t] = "insert"]
    /\ UNCHANGED <<crawlVars, searchVars, seqVars, guiVars, pageVars, appVars, run, task_ids, threads, pcMain, check_first, probe, local, output_order,
                   next_output_idx, output_buffer, success_count,
                   already_count, failed_count, success_ids, already_ids, results,
                   printed, records, reported, resp, vote_calls, inserts, raised>>

\* output_buffer[task_id] = (result_type, code, msg, data)
Put(buf, k, v) == [x \in DOMAIN buf \cup {k} |-> IF x = k THEN v ELSE buf[x]]

Del_keep(buf, k) == buf

\* del output_buffer[task_id]
Del_all(buf, k) == <<>>

Del(buf, k) == [x \in DOMAIN buf \ {k} |-> buf[x]]

Insert(t) ==
    /\ run = "batch_vote"
    /\ pc[t] = "insert"
    /\ output_buffer' = Put(output_buffer, t, local[t])
    /\ inserts' = [inserts EXCEPT ![t] = @ + 1]
    /\ pc' = [pc EXCEPT ![t] = "flush"]
    /\ UNCHANGED <<crawlVars, searchVars, seqVars, guiVars, pageVars, appVars, run, task_ids, threads, pcMain, check_first, probe, local, output_order,
                   next_output_idx, output_lock, success_count,
                   already_count, failed_count, success_ids, already_ids, results,
                   printed, records, reported, resp, vote_calls, raised>>

\* task_id = output_order[next_output_idx] (Python indexes from 0).
NextTaskId_any ==
    IF DOMAIN output_buffer = {} THEN output_order[next_output_idx + 1]
    ELSE CHOOSE x \in DOMAIN output_buffer :
            \A y \in DOMAIN output_buffer : IndexOf(y) <= IndexOf(x)

NextTaskId == output_order[next_output_idx + 1]

\* flush_output: the loop test and the `if task_id in output_buffer`.
CanFlush_short ==
    /\ next_output_idx < Len(output_order) - 1
    /\ NextTaskId \in DOMAIN output_buffer

CanFlush ==
    /\ next_output_idx < Len(output_order)
    /\ NextTaskId \in DOMAIN output_buffer

\* The counter that a result type increments.
Bump_else(kind, result_type) ==
    IF kind = "success" THEN (IF result_type = "success" THEN 1 ELSE 0)
    ELSE IF kind = "already" THEN (IF result_type = "already" THEN 1 ELSE 0)
    ELSE (IF result_type # "success" THEN 1 ELSE 0)

Bump(kind, result_type) ==
    IF kind = "success" THEN (IF result_type = "success" THEN 1 ELSE 0)
    ELSE IF kind = "already" THEN (IF result_type = "already" THEN 1 ELSE 0)
    ELSE (IF result_type \notin {"success", "already"} THEN 1 ELSE 0)

\* flush_output, first half of one iteration: the counters and id lists.
FlushCount(t) ==
    /\ run = "batch_vote"
    /\ pc[t] = "flush"
    /\ CanFlush
    /\ LET task_id == NextTaskId
           rt == output_buffer[task_id][1]
       IN  /\ success_count' = success_count + Bump("success", rt)
           /\ already_count' = already_count + Bump("already", rt)
           /\ failed_count' = failed_count + Bump("failed", rt)
           /\ success_ids' = IF rt = "success" THEN Append(success_ids, task_id)
                                               ELSE success_ids
           /\ already_ids' = IF rt = "already" THEN Append(already_ids, task_id)
                                               ELSE already_ids
    /\ pc' = [pc EXCEPT ![t] = "emit"]
    /\ UNCHANGED <<crawlVars, searchVars, seqVars, guiVars, pageVars, appVars, run, task_ids, threads, pcMain, check_first, probe, local, output_order,
                   next_output_idx, output_lock, output_buffer, results,
                   printed, records, reported, resp, vote_calls, inserts, raised>>

\* flush_output, second half: print, saver.save_record, del, next_output_idx += 1.
NextIdx_stay(i) == i

NextIdx(i) == i + 1

SaveRecord_raises(written) == IF written THEN "returns" ELSE "raises"

\* ResultSaver.save_record: open and write sit in try/except Exception, the
\* handler prints; the call returns whether or not the line was written.
SaveRecord(written) == "returns"

\* Whether an append to the results file goes through: always on a sound
\* disk, either way on a failing one.
WriteOutcomes(d) == IF d = "failing" THEN BOOLEAN ELSE {TRUE}

\* The file append of save_record works or fails (written); were the call to
\* raise, the exception would leave flush_output, the with block and
\* process_task.
FlushEmit(t) ==
    /\ run = "batch_vote"
    /\ pc[t] = "emit"
    /\ \E written \in WriteOutcomes(disk) :
          LET task_id == NextTaskId
              r == output_buffer[task_id]
          IN  /\ printed' = Append(printed, task_id)
              /\ records' = Append(records, <<task_id, r[1], r[3]>>)
              /\ save_failed' = IF written THEN save_failed
                                           ELSE save_failed \cup {task_id}
              /\ IF SaveRecord(written) = "returns"
                 THEN /\ output_buffer' = Del(output_buffer, task_id)
                      /\ next_output_idx' = NextIdx(next_output_idx)
                      /\ pc' = [pc EXCEPT ![t] = "flush"]
                      /\ UNCHANGED output_lock
                 ELSE /\ UNCHANGED <<output_buffer, next_output_idx>>
                      /\ output_lock' = Free
                      /\ pc' = [pc EXCEPT ![t] = "done"]
    /\ UNCHANGED <<crawlVars, searchVars, seqVars, guiVars, pageVars, uiVars, disk, run, task_ids, threads, pcMain, check_first, probe, local, output_order,
                   success_count, already_count, failed_count,
                   success_ids, already_ids, results, reported, resp, vote_calls, inserts,
                   raised>>

\* flush_output returns (loop exhausted or break) and the with block ends.
FlushExit(t) ==
    /\ run = "batch_vote"
    /\ pc[t] = "flush"
    /\ ~CanFlush
    /\ output_lock' = Free
    /\ pc' = [pc EXCEPT ![t] = "res"]
    /\ UNCHANGED <<crawlVars, searchVars, seqVars, guiVars, pageVars, appVars, run, task_ids, threads, pcMain, check_first, probe, local, output_order,
                   next_output_idx, output_buffer, success_count,
                   already_count, failed_count, success_ids, already_ids, results,
                   printed, records, reported, resp, vote_calls, inserts, raised>>

\* with results_lock: results[task_id] = (...); the future completes.
StoreResult(t) ==
    /\ run = "batch_vote"
    /\ pc[t] = "res"
    /\ results' = Put(results, t, local[t])
    /\ pc' = [pc EXCEPT ![t] = "done"]
    /\ UNCHANGED <<crawlVars, searchVars, seqVars, guiVars, pageVars, appVars, run, task_ids, threads, pcMain, check_first, probe, local, output_order,
                   next_output_idx, output_lock, output_buffer, success_count,
                   already_count, failed_count, success_ids, already_ids,
                   printed, records, reported, resp, vote_calls, inserts, raised>>

\* as_completed has yielded every future and the executor has shut down;
\* the statistics are printed and saver.finalize is called.
Report ==
    /\ run = "batch_vote"
    /\ pcMain = "wait"
    /\ AllDone
    /\ reported' = <<success_count + already_count, failed_count, Len(task_ids)>>
    /\ pcMain' = "returned"
    /\ UNCHANGED <<crawlVars, searchVars, seqVars, guiVars, pageVars, appVars, run, task_ids, threads, pc, check_first, probe, local, output_order,
                   next_output_idx, output_lock, output_buffer, success_count,
                   already_count, failed_count, success_ids, already_ids, results,
                   printed, records, resp, vote_calls, inserts, raised>>

\* The searcher's fields when no searcher exists.
SearchIdle ==
    /\ user_cache = <<>>
    /\ found_users = <<>>
    /\ seen_user_ids = {}
    /\ lock = Free
    /\ sloc = <<>>
    /\ fetches = <<>>

\* The state of crawl_and_save_posts and of results_lock when neither
\* crawl_and_save_posts nor batch_vote_gui runs.
CrawlIdle ==
    /\ results_lock = Free
    /\ page_results = <<>>
    /\ total_posts = 0
    /\ failed_pages = 0
    /\ saved_count = 0
    /\ collected = <<>>

\* What a page request of the sequential crawlers returns: a failure, or the
\* posts of the page with has_more.
PageResult(kind, n, more) == [kind |-> kind, posts |-> n, has_more |-> more]
NoResult == PageResult("None", 0, FALSE)

\* The locals of the sequential crawlers when none of them runs.
SeqIdle ==
    /\ page = 0
    /\ last_result = NoResult
    /\ requested = <<>>
    /\ total_saved = 0
    /\ actual_pages_crawled = 0

\* builtins.print as the interpreter starts with it, and MainScreen.log.
OriginalPrint == "print"
LogMethod == "self.log"
NotSaved == "unbound"           \* old_print before the wrapper assigns it

\* No wrapper of run_task exists: the operation was called directly.
NoWrapper ==
    /\ builtins_print = OriginalPrint
    /\ old_print = <<>>

\* The pagination state BDSMForumSpider.__init__ and reset_pagination set.
FreshPagination ==
    /\ current_page = 1
    /\ has_more = TRUE

\* What get_next_page returns: None, the failure dict of get_posts, or its
\* success dict with len(data) posts.
NoNextPage == [kind |-> "None", posts |-> 0]
NextFailed == [kind |-> "failed", posts |-> 0]
NextPosts(n) == [kind |-> "posts", posts |-> n]

\* No manual_browse_posts is running: the console is in the main menu.
BrowseIdle ==
    /\ browse_pc = "menu"
    /\ browse_result = NoNextPage
    /\ browse_fetched = <<>>

\* The results file takes every append, and no save_record has failed.
SaverIdle ==
    /\ disk = "sound"
    /\ save_failed = {}

\* BDSMApp.__init__: self.token = None; build() shows the loading picture.
NoToken == "None"

LoginIdle ==
    /\ app_token = NoToken
    /\ screen = "loading"
    /\ pending = {}
    /\ logins = <<>>
    /\ gui_tasks = <<>>
    /\ validated = {}

\* os.path.exists(state_file) is false.
NoFile == [token |-> <<>>, expire_time |-> 0, exists |-> FALSE]

\* No login_state.json yet, and no load_login_state call.
StateIdle ==
    /\ state_file = NoFile
    /\ now = 0
    /\ loaded = <<>>

\* MainScreen.__init__: empty buffer and log, nothing scheduled.
LogIdle ==
    /\ log_buffer = <<>>
    /\ log_update_scheduled = FALSE
    /\ log_lines = <<>>
    /\ flush_events = 0
    /\ logged = 0
    /\ moved = <<>>
    /\ displayed = {}

UiIdle ==
    /\ BrowseIdle
    /\ LoginIdle
    /\ StateIdle
    /\ LogIdle

AppIdle ==
    /\ SaverIdle
    /\ UiIdle
    /\ LogIdle

\* get_posts on a success, whatever page was asked for:
\* self.has_more = len(posts) >= info.get("per_page", len(posts)).
\* per_page is what the server sends, or len(posts) when it sends none.
PageSizes == {MaxPosts, MaxPosts + 1}

HasMoreValues(n) == {n >= per_page : per_page \in PageSizes \cup {n}}

\* The thread count after `max(10, min(500, threads))`.
ClampThreads(n) == Max(MinThreads, Min(MaxThreads, n))

ThreadInputs == {1, recommended_threads}

InitVoteOn(d) ==
    /\ run = "batch_vote"
    /\ \E a \in Ids, b \in Ids :
          LET start == IF a > b THEN b ELSE a
              end == IF a > b THEN a ELSE b
          IN  /\ task_ids = Range(start, end)
              /\ output_order = Range(start, end)
    /\ \E n \in ThreadInputs : threads = ClampThreads(n)
    /\ check_first \in BOOLEAN
    /\ pcMain = "submit"
    /\ pc = [t \in SeqToSet(task_ids) |-> "new"]
    /\ local = [t \in SeqToSet(task_ids) |-> InitialLocal]
    /\ next_output_idx = 0
    /\ output_lock = Free
    /\ output_buffer = <<>>
    /\ success_count = 0
    /\ already_count = 0
    /\ failed_count = 0
    /\ success_ids = <<>>
    /\ already_ids = <<>>
    /\ results = <<>>
    /\ printed = <<>>
    /\ records = <<>>
    /\ reported = <<>>
    /\ probe = [t \in SeqToSet(task_ids) |-> NoResp]
    /\ resp = [t \in SeqToSet(task_ids) |-> NoResp]
    /\ vote_calls = [t \in SeqToSet(task_ids) |-> 0]
    /\ inserts = [t \in SeqToSet(task_ids) |-> 0]
    /\ raised = {}
    /\ SearchIdle
    /\ CrawlIdle
    /\ SeqIdle
    /\ NoWrapper
    /\ FreshPagination
    /\ disk = d
    /\ save_failed = {}
    /\ UiIdle

InitVote == InitVoteOn("sound")

\* batch_vote writing its results to a disk on which appends can fail.
InitVoteSave == InitVoteOn("failing")

NextVote ==
    \/ Submit
    \/ Report
    \/ \E t \in Tasks : StartTask(t)
    \/ \E t \in Tasks : VoteCheck(t)
    \/ \E t \in Tasks : VoteDo(t)
    \/ \E t \in Tasks : AcquireOutput(t)
    \/ \E t \in Tasks : Insert(t)
    \/ \E t \in Tasks : FlushCount(t)
    \/ \E t \in Tasks : FlushEmit(t)
    \/ \E t \in Tasks : FlushExit(t)
    \/ \E t \in Tasks : StoreResult(t)

SpecVote == InitVote /\ [][NextVote]_vars

SpecVoteSave == InitVoteSave /\ [][NextVote]_vars

\* ----------------------------------------------------- UsernamePostSearcher
\* User names are token sequences; the keyword is searched with `in`.
keyword == <<"k">>
NameMatch == <<"a", "k">>
NameFallback == <<"user_", "id">>

UserIds == {7, 8}
NoUser == 0                     \* a post without a user id

\* A dict returned by get_complete_user_info.  Two calls return two dicts:
\* `obj` tells them apart (the n-th dict fetched for that user id), so that
\* a write into one dict shows in every place that holds the same dict.
UserRecord(user_id, n, name) ==
    [id |-> user_id, obj |-> n, name |-> name, fallback |-> FALSE, found_page |-> 0]
Placeholder(user_id, n) ==
    [id |-> user_id, obj |-> n, name |-> NameFallback, fallback |-> TRUE,
     found_page |-> 0]

\* full_info not assigned yet
NoObj == [id |-> NoUser, obj |-> 0, name |-> EmptyStr, fallback |-> FALSE,
          found_page |-> 0]

\* get_complete_user_info: a fresh dict, either built from the remote user
\* record or, when the request failed, the placeholder record; never None.
get_complete_user_info(user_id, n) ==
    {UserRecord(user_id, n, NameMatch), Placeholder(user_id, n)}

\* `if full_info:` a dict with keys is true.
Truthy(info) == info.id # NoUser

SameDict(a, b) == a.id = b.id /\ a.obj = b.obj

InitialSloc == [left |-> 0, user_id |-> NoUser, full_info |-> NoObj]

\* The loop goes on to the next post (or the page ends): user_id and
\* full_info are assigned again before they are read.
Continue(loc) == [loc EXCEPT !.user_id = NoUser, !.full_info = NoObj]

SearchUnchanged == UNCHANGED <<crawlVars, seqVars, guiVars, pageVars, appVars, run, task_ids, threads, pcMain, voteVars>>

\* search_page entered by a worker; result = self.spider.get_posts(page=page):
\* a failure returns at once (saver is None in every caller); a success gives
\* the posts of the page.
GetPosts(p) ==
    /\ run = "search_all"
    /\ CanStart(p)
    /\ \/ /\ pc' = [pc EXCEPT ![p] = "done"]
          /\ sloc' = sloc
          /\ has_more' = has_more
       \/ \E n \in 0 .. MaxPosts :
             /\ sloc' = [sloc EXCEPT ![p].left = n]
             /\ pc' = [pc EXCEPT ![p] = "post"]
             /\ has_more' \in HasMoreValues(n)
    /\ UNCHANGED <<user_cache, found_users, seen_user_ids, lock, fetches>>
    /\ UNCHANGED <<crawlVars, seqVars, guiVars, current_page, appVars, run, task_ids, threads,
                   pcMain, voteVars>>

\* for post in posts: user_info = post.get("user", {}); user_id = ...
\* A post that is no dict (or whose "user" is null) raises AttributeError,
\* which the except branch of search_page swallows: the page ends there.
NextPost(p) ==
    /\ run = "search_all"
    /\ pc[p] = "post"
    /\ sloc[p].left > 0
    /\ \/ /\ raised' = raised \cup {p}
          /\ pc' = [pc EXCEPT ![p] = "done"]
          /\ sloc' = [sloc EXCEPT ![p] = Continue(@)]
       \/ /\ sloc' = [sloc EXCEPT ![p] = [Continue(@) EXCEPT !.left = @ - 1]]
          /\ UNCHANGED <<pc, raised>>
       \/ \E u \in UserIds :
             /\ sloc' = [sloc EXCEPT ![p] = [Continue(@) EXCEPT !.left = @ - 1,
                                                                 !.user_id = u]]
             /\ pc' = [pc EXCEPT ![p] = "cache"]
             /\ raised' = raised
    /\ UNCHANGED <<user_cache, found_users, seen_user_ids, lock, fetches>>
    /\ UNCHANGED <<crawlVars, seqVars, guiVars, pageVars, appVars, run, task_ids, threads, pcMain, check_first, probe, local, output_order,
                   next_output_idx, output_lock, output_buffer, success_count,
                   already_count, failed_count, success_ids, already_ids, results,
                   printed, records, reported, resp, vote_calls, inserts>>

\* The loop is over: the page statistics are printed and search_page returns.
PageDone(p) ==
    /\ run = "search_all"
    /\ pc[p] = "post"
    /\ sloc[p].left = 0
    /\ pc' = [pc EXCEPT ![p] = "done"]
    /\ sloc' = [sloc EXCEPT ![p] = Continue(@)]
    /\ UNCHANGED <<user_cache, found_users, seen_user_ids, lock, fetches>>
    /\ SearchUnchanged

\* Back in search_page with what get_user_full_info_cached returned:
\* `if not full_info: continue`, username = full_info.get("name", ""), and
\* `if user_id and self.keyword in username:` leads to the with block.
Matches(info) == Truthy(info) /\ Contains(info.name, keyword)

AfterLookup(p, info) ==
    IF Matches(info)
    THEN /\ pc' = [pc EXCEPT ![p] = "lock"]
         /\ sloc' = [sloc EXCEPT ![p].full_info = info]
    ELSE /\ pc' = [pc EXCEPT ![p] = "post"]
         /\ sloc' = [sloc EXCEPT ![p].full_info = info]

\* get_user_full_info_cached: `if user_id in self.user_cache: return ...`
CacheHit_never(cache, user_id) == FALSE

CacheHit(cache, user_id) == user_id \in DOMAIN cache

CacheCheck(p) ==
    /\ run = "search_all"
    /\ pc[p] = "cache"
    /\ IF CacheHit(user_cache, sloc[p].user_id)
       THEN AfterLookup(p, user_cache[sloc[p].user_id])
       ELSE /\ sloc' = sloc
            /\ pc' = [pc EXCEPT ![p] = "fetch"]
    /\ UNCHANGED <<user_cache, found_users, seen_user_ids, lock, fetches>>
    /\ SearchUnchanged

StoreCache_single(cache, user_id, obj) == [x \in {user_id} |-> obj]

\* get_user_full_info_cached after a miss: the fetch, `if full_info:`, the
\* store and the return of the fetched dict.
StoreCache(cache, user_id, obj) == Put(cache, user_id, obj)

Fetch(p) ==
    /\ run = "search_all"
    /\ pc[p] = "fetch"
    /\ \E info \in get_complete_user_info(sloc[p].user_id,
                                           fetches[sloc[p].user_id] + 1) :
          /\ fetches' = [fetches EXCEPT ![sloc[p].user_id] = @ + 1]
          /\ IF Truthy(info)
             THEN /\ user_cache' = StoreCache(user_cache, sloc[p].user_id, info)
                  /\ AfterLookup(p, info)
             ELSE /\ user_cache' = user_cache
                  /\ AfterLookup(p, NoObj)
    /\ UNCHANGED <<found_users, seen_user_ids, lock>>
    /\ SearchUnchanged

\* with self.lock: (entry)
AcquireSearch(p) ==
    /\ run = "search_all"
    /\ pc[p] = "lock"
    /\ LockFree(lock)
    /\ lock' = p
    /\ pc' = [pc EXCEPT ![p] = "found"]
    /\ UNCHANGED <<user_cache, found_users, seen_user_ids, sloc, fetches>>
    /\ SearchUnchanged

NotSeen_always(user_id) == TRUE

\* `if user_id not in self.seen_user_ids:`
NotSeen(user_id) == user_id \notin seen_user_ids

\* The body of the with block: the dedup by seen_user_ids, found_page is
\* written into the dict itself, the dict is appended; then the lock is
\* released.
Found(p) ==
    /\ run = "search_all"
    /\ pc[p] = "found"
    /\ LET u == sloc[p].user_id
           d == sloc[p].full_info
           Written(x) == IF SameDict(x, d) THEN [x EXCEPT !.found_page = p] ELSE x
       IN  IF NotSeen(u)
           THEN /\ seen_user_ids' = seen_user_ids \cup {u}
                /\ sloc' = [q \in DOMAIN sloc |->
                               [sloc[q] EXCEPT !.full_info = Written(@)]]
                /\ user_cache' = [k \in DOMAIN user_cache |-> Written(user_cache[k])]
                /\ found_users' = Append([i \in DOMAIN found_users |->
                                             Written(found_users[i])], Written(d))
           ELSE UNCHANGED <<seen_user_ids, sloc, user_cache, found_users>>
    /\ lock' = Free
    /\ pc' = [pc EXCEPT ![p] = "post"]
    /\ UNCHANGED fetches
    /\ SearchUnchanged

\* search_all: every future has completed; return self.found_users.
SearchReturn ==
    /\ run = "search_all"
    /\ pcMain = "wait"
    /\ AllDone
    /\ reported' = found_users
    /\ pcMain' = "returned"
    /\ UNCHANGED <<crawlVars, searchVars, seqVars, guiVars, pageVars, appVars, run, task_ids, threads, pc, check_first, probe, local,
                   output_order, next_output_idx, output_lock, output_buffer,
                   success_count, already_count, failed_count, success_ids,
                   already_ids, results, printed, records, resp, vote_calls, inserts, raised>>

\* batch_vote's variables when no batch vote runs.
VoteIdle ==
    /\ check_first = FALSE
    /\ probe = <<>>
    /\ local = <<>>
    /\ output_order = <<>>
    /\ next_output_idx = 0
    /\ output_lock = Free
    /\ output_buffer = <<>>
    /\ success_count = 0
    /\ already_count = 0
    /\ failed_count = 0
    /\ success_ids = <<>>
    /\ already_ids = <<>>
    /\ results = <<>>
    /\ printed = <<>>
    /\ records = <<>>
    /\ reported = <<>>
    /\ resp = <<>>
    /\ vote_calls = <<>>
    /\ inserts = <<>>
    /\ raised = {}

\* The pool sizes the searcher is run with: one worker, and two workers.
SearchThreads == {1, 2}

\* UsernamePostSearcher(spider, keyword, threads, max_pages) and search_all.
InitSearch ==
    /\ run = "search_all"
    /\ \E max_pages \in 1 .. MaxPages : task_ids = Range(1, max_pages)
    /\ threads \in SearchThreads
    /\ pcMain = "submit"
    /\ pc = [p \in SeqToSet(task_ids) |-> "new"]
    /\ user_cache = <<>>
    /\ found_users = <<>>
    /\ seen_user_ids = {}
    /\ lock = Free
    /\ sloc = [p \in SeqToSet(task_ids) |-> InitialSloc]
    /\ fetches = [u \in UserIds |-> 0]
    /\ VoteIdle
    /\ CrawlIdle
    /\ SeqIdle
    /\ NoWrapper
    /\ FreshPagination
    /\ AppIdle

NextSearch ==
    \/ Submit
    \/ SearchReturn
    \/ \E p \in Tasks : GetPosts(p)
    \/ \E p \in Tasks : NextPost(p)
    \/ \E p \in Tasks : PageDone(p)
    \/ \E p \in Tasks : CacheCheck(p)
    \/ \E p \in Tasks : Fetch(p)
    \/ \E p \in Tasks : AcquireSearch(p)
    \/ \E p \in Tasks : Found(p)

SpecSearch == InitSearch /\ [][NextSearch]_vars

\* A search over one page more, on two workers: three lookups of one user id
\* can then follow one another, two of them at the same time.
InitSearchMore ==
    /\ run = "search_all"
    /\ task_ids = Range(1, MaxPages + 1)
    /\ threads = 2
    /\ pcMain = "submit"
    /\ pc = [p \in SeqToSet(task_ids) |-> "new"]
    /\ user_cache = <<>>
    /\ found_users = <<>>
    /\ seen_user_ids = {}
    /\ lock = Free
    /\ sloc = [p \in SeqToSet(task_ids) |-> InitialSloc]
    /\ fetches = [u \in UserIds |-> 0]
    /\ VoteIdle
    /\ CrawlIdle
    /\ SeqIdle
    /\ NoWrapper
    /\ FreshPagination
    /\ AppIdle

SpecSearchMore == InitSearchMore /\ [][NextSearch]_vars

\* ------------------------------------------------- the classifier on its own
\* One reply of the vote endpoint, taken through vote_do and the choice of
\* result_type in process_task.
InitClassify ==
    /\ run = "classify"
    /\ task_ids = <<1>>
    /\ threads = 1
    /\ pcMain = "wait"
    /\ pc = <<"reply">>
    /\ check_first = FALSE
    /\ probe = <<>>
    /\ local = <<InitialLocal>>
    /\ \E r \in Responses : resp = <<r>>
    /\ vote_calls = <<0>>
    /\ output_order = <<>>
    /\ next_output_idx = 0
    /\ output_lock = Free
    /\ output_buffer = <<>>
    /\ success_count = 0
    /\ already_count = 0
    /\ failed_count = 0
    /\ success_ids = <<>>
    /\ already_ids = <<>>
    /\ results = <<>>
    /\ printed = <<>>
    /\ records = <<>>
    /\ reported = <<>>
    /\ inserts = <<0>>
    /\ raised = {}
    /\ SearchIdle
    /\ CrawlIdle
    /\ SeqIdle
    /\ NoWrapper
    /\ FreshPagination
    /\ AppIdle

ClassifyReply ==
    /\ run = "classify"
    /\ pc[1] = "reply"
    /\ local' = [local EXCEPT ![1] = ResultOf(vote_do(resp[1]))]
    /\ vote_calls' = [vote_calls EXCEPT ![1] = @ + 1]
    /\ pc' = [pc EXCEPT ![1] = "classified"]
    /\ UNCHANGED <<crawlVars, searchVars, seqVars, guiVars, pageVars, appVars, run, task_ids, threads, pcMain, check_first, probe, output_order,
                   next_output_idx, output_lock, output_buffer, success_count,
                   already_count, failed_count, success_ids, already_ids, results,
                   printed, records, reported, resp, inserts, raised>>

NextClassify == ClassifyReply

SpecClassify == InitClassify /\ [][NextClassify]_vars

\* --------------------------------------------------------- batch_vote_gui
\* What batch_vote_gui never touches.
GuiUnchanged ==
    UNCHANGED <<searchVars, seqVars, guiVars, pageVars, appVars, run, task_ids, threads, check_first, probe, output_order,
                next_output_idx, output_lock, output_buffer, success_ids,
                already_ids, printed, inserts, page_results, total_posts,
                failed_pages, saved_count, collected>>

\* The names of process_task before they are bound.
Unbound == <<>>

GuiKind_ok(ret) == IF ret[1] THEN "success" ELSE "failed"

\* The branch of the with block chosen from vote_do's tuple.
GuiKind(ret) ==
    IF ret[1] THEN (IF ret[3] = "1" THEN "success" ELSE "already") ELSE "failed"

\* results[task_id] in the except branch: (False, 0, str(e)).
GuiHandlerResult == <<FALSE, "0", <<"exception">>>>

\* process_task up to the with block: the vote request, and vote_do's tuple
\* unpacked into five names.  vote_do returns five values on every path, its
\* own failures included; were the unpacking to raise, the except branch
\* would be taken, which also asks for results_lock.
GuiVote(t) ==
    /\ run = "batch_vote_gui"
    /\ CanStart(t)
    /\ \E r \in BatchResponses :
          /\ resp' = [resp EXCEPT ![t] = r]
          /\ vote_calls' = [vote_calls EXCEPT ![t] = @ + 1]
          /\ local' = [local EXCEPT ![t] = vote_do(r)]
          /\ raised' = IF UnpackRaises(5, vote_do(r)) THEN raised \cup {t} ELSE raised
    /\ pc' = [pc EXCEPT ![t] = "rlock"]
    /\ UNCHANGED <<pcMain, success_count, already_count, failed_count, results,
                   records, reported, results_lock>>
    /\ GuiUnchanged

\* `with results_lock:` is entered.
GuiAcquire(t) ==
    /\ run = "batch_vote_gui"
    /\ pc[t] = "rlock"
    /\ results_lock = Free
    /\ results_lock' = t
    /\ pc' = [pc EXCEPT ![t] = "count"]
    /\ UNCHANGED <<pcMain, local, success_count, already_count, failed_count,
                   results, records, reported, resp, vote_calls, raised>>
    /\ GuiUnchanged

\* The body of the with block: one counter, save_record, print, results; in
\* the except branch failed_count and results only.  The lock is released
\* and process_task returns.
GuiCount(t) ==
    /\ run = "batch_vote_gui"
    /\ pc[t] = "count"
    /\ LET ret == local[t]
           kind == IF t \in raised THEN "failed" ELSE GuiKind(ret)
       IN  /\ success_count' = success_count + (IF kind = "success" THEN 1 ELSE 0)
           /\ already_count' = already_count + (IF kind = "already" THEN 1 ELSE 0)
           /\ failed_count' = failed_count + (IF kind = "failed" THEN 1 ELSE 0)
           /\ records' = IF t \in raised THEN records
                         ELSE Append(records, <<t, kind, ret[4]>>)
           /\ results' = IF t \in raised THEN Put(results, t, GuiHandlerResult)
                         ELSE Put(results, t, <<ret[1], ret[3], ret[4]>>)
    /\ results_lock' = Free
    /\ pc' = [pc EXCEPT ![t] = "done"]
    /\ UNCHANGED <<pcMain, local, reported, resp, vote_calls, raised>>
    /\ GuiUnchanged

\* `with ThreadPoolExecutor(max_workers=threads) as executor:` the constructor
\* raises ValueError unless max_workers > 0; the exception leaves the function.
\* Otherwise the tasks are submitted; with no task the with block is empty.
PoolOpened == IF threads <= 0 THEN "raised"
              ELSE IF task_ids = <<>> THEN "wait" ELSE "submit"

GuiOpen ==
    /\ run = "batch_vote_gui"
    /\ pcMain = "start"
    /\ pcMain' = PoolOpened
    /\ UNCHANGED <<pc, local, success_count, already_count, failed_count, results,
                   records, reported, resp, vote_calls, raised, results_lock>>
    /\ GuiUnchanged

\* The executor has shut down; the statistics are printed and
\* saver.finalize(success_count, failed_count, len(task_ids), ...) is called.
GuiReport ==
    /\ run = "batch_vote_gui"
    /\ pcMain = "wait"
    /\ AllDone
    /\ reported' = <<success_count, failed_count, Len(task_ids)>>
    /\ pcMain' = "returned"
    /\ UNCHANGED <<pc, local, success_count, already_count, failed_count, results,
                   records, resp, vote_calls, raised, results_lock>>
    /\ GuiUnchanged

\* batch_vote_gui(start_id, end_id, threads) as MainScreen._do_batch_vote
\* calls it: start and end swapped when start > end, threads as typed.
InitGui ==
    /\ run = "batch_vote_gui"
    /\ \E a \in Ids, b \in Ids :
          LET start == IF a > b THEN b ELSE a
              end == IF a > b THEN a ELSE b
          IN  task_ids = Range(start, end)
    /\ threads \in 0 .. MaxWorkers
    /\ check_first = FALSE
    /\ probe = <<>>
    /\ pcMain = "start"
    /\ pc = [t \in SeqToSet(task_ids) |-> "new"]
    /\ local = [t \in SeqToSet(task_ids) |-> Unbound]
    /\ output_order = <<>>
    /\ next_output_idx = 0
    /\ output_lock = Free
    /\ output_buffer = <<>>
    /\ success_count = 0
    /\ already_count = 0
    /\ failed_count = 0
    /\ success_ids = <<>>
    /\ already_ids = <<>>
    /\ results = <<>>
    /\ printed = <<>>
    /\ records = <<>>
    /\ reported = <<>>
    /\ resp = [t \in SeqToSet(task_ids) |-> NoResp]
    /\ vote_calls = [t \in SeqToSet(task_ids) |-> 0]
    /\ inserts = <<>>
    /\ raised = {}
    /\ SearchIdle
    /\ CrawlIdle
    /\ SeqIdle
    /\ NoWrapper
    /\ FreshPagination
    /\ AppIdle

NextGui ==
    \/ GuiOpen
    \/ Submit
    \/ GuiReport
    \/ \E t \in Tasks : GuiVote(t)
    \/ \E t \in Tasks : GuiAcquire(t)
    \/ \E t \in Tasks : GuiCount(t)

SpecGui == InitGui /\ [][NextGui]_vars

\* ---------------------------------------------------- crawl_and_save_posts
\* What crawl_and_save_posts never touches.
CrawlUnchanged ==
    UNCHANGED <<searchVars, seqVars, guiVars, pageVars, appVars, run, task_ids, threads, check_first, probe, output_order,
                next_output_idx, output_lock, output_buffer, success_count,
                already_count, failed_count, success_ids, already_ids, results,
                resp, vote_calls, inserts, raised>>

\* What fetch_page returns: None, or (page_num, posts) with len(posts) posts.
NoPage == [kind |-> "None", posts |-> 0]
FetchFailed == [kind |-> "failed", posts |-> 0]
FetchEmpty == [kind |-> "empty", posts |-> 0]
Page(n) == [kind |-> "posts", posts |-> n]

\* `with ThreadPoolExecutor(max_workers=threads) as executor:` in
\* crawl_and_save_posts; with no page both the dict comprehension and the
\* as_completed loop are empty and the pages are processed next.
CrawlOpen ==
    /\ run = "crawl_and_save_posts"
    /\ pcMain = "start"
    /\ pcMain' = IF PoolOpened = "wait" THEN "process" ELSE PoolOpened
    /\ UNCHANGED <<pc, local, printed, records, reported, crawlVars>>
    /\ CrawlUnchanged

\* fetch_page entered by a worker; result = self.get_posts(page=page_num).
\* get_posts catches every exception and always returns a dict with
\* "success", and a "data" that has a length: nothing in the try body raises.
\* A failure and an empty page go on to results_lock; a page with posts is
\* printed and returned.
FetchPage(p) ==
    /\ run = "crawl_and_save_posts"
    /\ CanStart(p)
    /\ \/ /\ local' = [local EXCEPT ![p] = FetchFailed]
          /\ pc' = [pc EXCEPT ![p] = "rlock"]
          /\ has_more' = has_more
       \/ /\ local' = [local EXCEPT ![p] = FetchEmpty]
          /\ pc' = [pc EXCEPT ![p] = "rlock"]
          /\ has_more' \in HasMoreValues(0)
       \/ \E n \in 1 .. MaxPosts :
             /\ local' = [local EXCEPT ![p] = Page(n)]
             /\ pc' = [pc EXCEPT ![p] = "done"]
             /\ has_more' \in HasMoreValues(n)
    /\ UNCHANGED <<pcMain, printed, records, reported, crawlVars>>
    /\ UNCHANGED <<searchVars, seqVars, guiVars, current_page, appVars, run, task_ids, threads,
                   check_first, probe, output_order, next_output_idx, output_lock,
                   output_buffer, success_count, already_count, failed_count,
                   success_ids, already_ids, results, resp, vote_calls, inserts,
                   raised>>

\* `with results_lock:` in fetch_page is entered.
FetchAcquire(p) ==
    /\ run = "crawl_and_save_posts"
    /\ pc[p] = "rlock"
    /\ results_lock = Free
    /\ results_lock' = p
    /\ pc' = [pc EXCEPT ![p] = "record"]
    /\ UNCHANGED <<pcMain, local, printed, records, reported, page_results,
                   total_posts, failed_pages, saved_count, collected>>
    /\ CrawlUnchanged

IsFailure_any(result) == TRUE

\* The branch `if not result["success"]:`; the branch `if not posts:` that
\* follows it leaves failed_pages alone.
IsFailure(result) == result = FetchFailed

\* The with block: failed_pages += 1 on a failure, saver.save_record; then
\* the lock is released, the line is printed and fetch_page returns None.
FetchRecord(p) ==
    /\ run = "crawl_and_save_posts"
    /\ pc[p] = "record"
    /\ failed_pages' = failed_pages + (IF IsFailure(local[p]) THEN 1 ELSE 0)
    /\ records' = Append(records, <<p, local[p].kind, EmptyStr>>)
    /\ results_lock' = Free
    /\ pc' = [pc EXCEPT ![p] = "done"]
    /\ UNCHANGED <<pcMain, local, printed, reported, page_results, total_posts,
                   saved_count, collected>>
    /\ CrawlUnchanged

IsResult_none(r) == FALSE

\* `if result:` in the as_completed loop: fetch_page returned a tuple, not
\* None.
IsResult(r) == r.kind = "posts"

\* One iteration of `for future in as_completed(futures)`, which starts once
\* every page is submitted: a result that is not None is stored in
\* page_results under results_lock.  After the last future the executor
\* shuts down.
Collect(p) ==
    /\ run = "crawl_and_save_posts"
    /\ pcMain = "wait"
    /\ pc[p] = "done"
    /\ p \notin SeqToSet(collected)
    /\ collected' = Append(collected, p)
    /\ IF IsResult(local[p])
       THEN /\ results_lock = Free
            /\ page_results' = Put(page_results, p, local[p].posts)
            /\ total_posts' = total_posts + local[p].posts
       ELSE UNCHANGED <<page_results, total_posts>>
    /\ pcMain' = IF SeqToSet(collected') = Tasks THEN "process" ELSE "wait"
    /\ UNCHANGED <<pc, local, printed, records, reported, results_lock,
                   failed_pages, saved_count>>
    /\ CrawlUnchanged

\* The pages still to be handled by `for page_num in sorted(page_results.keys())`.
Unprocessed == DOMAIN page_results \ SeqToSet(printed)

NextPage_inserted(pages) ==
    CHOOSE q \in pages :
        \A o \in pages :
            (CHOOSE i \in 1 .. Len(collected) : collected[i] = q)
                <= (CHOOSE i \in 1 .. Len(collected) : collected[i] = o)

\* The next element of sorted(page_results.keys()): the smallest page number
\* not handled yet.
NextPage(pages) == CHOOSE q \in pages : \A o \in pages : q <= o

\* One iteration of that loop: the page is shown, page_saved of its posts are
\* saved (save_post_for_user_crawl decides), and the page's record is written.
ProcessPage ==
    /\ run = "crawl_and_save_posts"
    /\ pcMain = "process"
    /\ Unprocessed # {}
    /\ LET page_num == NextPage(Unprocessed)
       IN  \E page_saved \in 0 .. page_results[page_num] :
              /\ saved_count' = saved_count + page_saved
              /\ printed' = Append(printed, page_num)
              /\ records' = Append(records, <<page_num, "stats", EmptyStr>>)
    /\ UNCHANGED <<pcMain, pc, local, reported, results_lock, page_results,
                   total_posts, failed_pages, collected>>
    /\ CrawlUnchanged

\* saver.finalize(saved_count, total_posts - saved_count, total_posts, ...)
CrawlReport ==
    /\ run = "crawl_and_save_posts"
    /\ pcMain = "process"
    /\ Unprocessed = {}
    /\ reported' = <<saved_count, total_posts - saved_count, total_posts>>
    /\ pcMain' = "returned"
    /\ UNCHANGED <<pc, local, printed, records, crawlVars>>
    /\ CrawlUnchanged

\* crawl_and_save_posts(start_page, max_pages, threads): one task per page of
\* range(start_page, start_page + max_pages).
InitCrawl ==
    /\ run = "crawl_and_save_posts"
    /\ \E start_page \in 1 .. MaxPages, max_pages \in 0 .. MaxPages :
          task_ids = Range(start_page, start_page + max_pages - 1)
    /\ threads \in 0 .. MaxWorkers
    /\ check_first = FALSE
    /\ probe = <<>>
    /\ pcMain = "start"
    /\ pc = [p \in SeqToSet(task_ids) |-> "new"]
    /\ local = [p \in SeqToSet(task_ids) |-> NoPage]
    /\ output_order = <<>>
    /\ next_output_idx = 0
    /\ output_lock = Free
    /\ output_buffer = <<>>
    /\ success_count = 0
    /\ already_count = 0
    /\ failed_count = 0
    /\ success_ids = <<>>
    /\ already_ids = <<>>
    /\ results = <<>>
    /\ printed = <<>>
    /\ records = <<>>
    /\ reported = <<>>
    /\ resp = <<>>
    /\ vote_calls = <<>>
    /\ inserts = <<>>
    /\ raised = {}
    /\ SearchIdle
    /\ CrawlIdle
    /\ SeqIdle
    /\ NoWrapper
    /\ FreshPagination
    /\ AppIdle

NextCrawl ==
    \/ CrawlOpen
    \/ Submit
    \/ ProcessPage
    \/ CrawlReport
    \/ \E p \in Tasks : FetchPage(p)
    \/ \E p \in Tasks : FetchAcquire(p)
    \/ \E p \in Tasks : FetchRecord(p)
    \/ \E p \in Tasks : Collect(p)

SpecCrawl == InitCrawl /\ [][NextCrawl]_vars

\* ------------------- crawl_user_posts_gui and search_and_save_posts_gui
\* The two sequential crawlers run on the calling thread: no pool, no lock.
SeqRuns == {"crawl_user_posts_gui", "search_and_save_posts_gui"}

max_pages == Len(task_ids)

SeqUnchanged ==
    UNCHANGED <<voteVars, searchVars, crawlVars, guiVars, pageVars, appVars, run, task_ids, threads, pc>>

\* What get_user_posts / search_posts_with_page can return.  Both catch every
\* exception and return {"success": False, ...}; only get_user_posts returns
\* has_more (len(posts) >= per_page).
PageResults ==
    {PageResult("failed", 0, FALSE)}
    \cup {PageResult("empty", 0, more) : more \in BOOLEAN}
    \cup {PageResult("posts", n, more) : n \in 1 .. MaxPosts, more \in BOOLEAN}

\* `while page <= max_pages:` / `for page in range(1, max_pages + 1):` has
\* another page.
LoopTest == page <= max_pages

\* The loop body up to the request: result = self.get_user_posts(user_id,
\* page) or self.search_posts_with_page(keyword, page).
SeqRequest ==
    /\ run \in SeqRuns
    /\ pcMain = "loop"
    /\ LoopTest
    /\ \E r \in PageResults :
          /\ run = "search_and_save_posts_gui" => ~r.has_more
          /\ last_result' = r
    /\ requested' = Append(requested, page)
    /\ pcMain' = "got"
    /\ UNCHANGED <<page, total_saved, actual_pages_crawled>>
    /\ SeqUnchanged

Stops_never(r) == FALSE

\* `if not result["success"]: break` and `if not posts: break`;
\* crawl_user_posts_gui counts the page before it looks at posts.
Stops(r) == r.kind \in {"failed", "empty"}

SeqCheck ==
    /\ run \in SeqRuns
    /\ pcMain = "got"
    /\ actual_pages_crawled' =
          IF run = "crawl_user_posts_gui" /\ last_result.kind # "failed"
          THEN actual_pages_crawled + 1 ELSE actual_pages_crawled
    /\ pcMain' = IF Stops(last_result) THEN "stats" ELSE "save"
    /\ UNCHANGED <<page, last_result, requested, total_saved>>
    /\ SeqUnchanged

\* `if not result.get("has_more", False): break` of crawl_user_posts_gui;
\* search_and_save_posts_gui has no such test.
LastPage(r) == run = "crawl_user_posts_gui" /\ ~r.has_more

\* The posts of the page are shown and saved (save_post_for_user_crawl
\* decides how many), then the loop goes on with the next page or ends.
SeqSave ==
    /\ run \in SeqRuns
    /\ pcMain = "save"
    /\ \E page_saved \in 0 .. last_result.posts :
          total_saved' = total_saved + page_saved
    /\ IF LastPage(last_result)
       THEN /\ pcMain' = "stats"
            /\ page' = page
       ELSE /\ pcMain' = "loop"
            /\ page' = page + 1
    /\ UNCHANGED <<last_result, requested, actual_pages_crawled>>
    /\ SeqUnchanged

\* The loop is exhausted.
SeqExhausted ==
    /\ run \in SeqRuns
    /\ pcMain = "loop"
    /\ ~LoopTest
    /\ pcMain' = "stats"
    /\ UNCHANGED seqVars
    /\ SeqUnchanged

\* The statistics are printed and the function returns.
SeqReturn ==
    /\ run \in SeqRuns
    /\ pcMain = "stats"
    /\ pcMain' = "returned"
    /\ UNCHANGED seqVars
    /\ SeqUnchanged

\* crawl_user_posts_gui(user_id, max_pages) and
\* search_and_save_posts_gui(keyword, max_pages) as MainScreen calls them:
\* max_pages is the number typed, 0 included.
InitSeq ==
    /\ run \in SeqRuns
    /\ \E n \in 0 .. MaxPages : task_ids = Range(1, n)
    /\ threads = 1
    /\ pcMain = "loop"
    /\ pc = <<>>
    /\ page = 1
    /\ last_result = NoResult
    /\ requested = <<>>
    /\ total_saved = 0
    /\ actual_pages_crawled = 0
    /\ VoteIdle
    /\ SearchIdle
    /\ CrawlIdle
    /\ NoWrapper
    /\ FreshPagination
    /\ AppIdle

NextSeq ==
    \/ SeqRequest
    \/ SeqCheck
    \/ SeqSave
    \/ SeqExhausted
    \/ SeqReturn

SpecSeq == InitSeq /\ [][NextSeq]_vars

\* The calling thread is always scheduled.
SpecSeqFair == SpecSeq /\ WF_vars(NextSeq)

\* ----------------------------------- vote_single_gui and vote_single_test
\* One task, voted on the calling thread: the check request (pds), then the
\* vote request (pd_do).  probe holds the reply of the check, resp the reply
\* of the vote, vote_calls the number of vote requests sent.
SingleRuns == {"vote_single_gui", "vote_single_test"}

SingleUnchanged ==
    UNCHANGED <<searchVars, crawlVars, seqVars, guiVars, pageVars, appVars, run, task_ids, threads, pc,
                check_first, local, output_order, next_output_idx, output_lock,
                output_buffer, success_count, already_count, failed_count,
                success_ids, already_ids, results, printed, inserts, raised>>

\* What the user types at "confirm the vote? (y/n)" of vote_single_test.
Answers == {"y", "n"}

CheckPasses_json(r) == r.kind = "http" /\ r.status = "200" /\ r.body.json

\* The check lets the function go on to the vote: vote_single_gui needs
\* HTTP 200 and check_data.get("code") == 1 and returns on everything else,
\* its except branch included; vote_single_test takes vote_check's `valid`.
CheckPasses(r) ==
    IF run = "vote_single_test" THEN vote_check(r)[1]
    ELSE r.kind = "http" /\ r.status = "200" /\ r.body.json /\ r.body.code = "1"

\* The check request and what follows from its reply.  vote_single_test
\* writes the check's record, and when the task is not valid also the record
\* of the vote that was not cast and the totals.
SingleCheck(t) ==
    /\ run \in SingleRuns
    /\ pcMain = "check"
    /\ \E r \in Responses :
          /\ probe' = [probe EXCEPT ![t] = r]
          /\ IF run = "vote_single_gui"
             THEN /\ pcMain' = IF CheckPasses(r) THEN "vote" ELSE "returned"
                  /\ UNCHANGED <<records, reported>>
             ELSE IF CheckPasses(r)
             THEN /\ pcMain' = "confirm"
                  /\ records' = Append(records, <<t, "check ok", vote_check(r)[2]>>)
                  /\ UNCHANGED reported
             ELSE /\ pcMain' = "returned"
                  /\ records' = records \o << <<t, "check failed", vote_check(r)[2]>>,
                                              <<t, "cancelled", EmptyStr>> >>
                  /\ reported' = <<0, 0, 1>>
    /\ UNCHANGED <<resp, vote_calls>>
    /\ SingleUnchanged

\* vote_single_test: input("...").lower() == 'y'
SingleConfirm(t) ==
    /\ run = "vote_single_test"
    /\ pcMain = "confirm"
    /\ \E answer \in Answers :
          IF answer = "y"
          THEN /\ pcMain' = "vote"
               /\ UNCHANGED <<records, reported>>
          ELSE /\ pcMain' = "returned"
               /\ records' = Append(records, <<t, "cancelled", EmptyStr>>)
               /\ reported' = <<1, 0, 1>>
    /\ UNCHANGED <<probe, resp, vote_calls>>
    /\ SingleUnchanged

\* The vote request: vote_do in vote_single_test, the POST to pd_do in
\* vote_single_gui, whose reply is only printed.
SingleVote(t) ==
    /\ run \in SingleRuns
    /\ pcMain = "vote"
    /\ \E r \in Responses :
          /\ resp' = [resp EXCEPT ![t] = r]
          /\ vote_calls' = [vote_calls EXCEPT ![t] = @ + 1]
          /\ IF run = "vote_single_test"
             THEN /\ records' = Append(records,
                                   <<t, IF vote_do(r)[1] THEN "vote ok" ELSE "vote failed",
                                     vote_do(r)[4]>>)
                  /\ reported' = <<1, 0, 1>>
             ELSE UNCHANGED <<records, reported>>
    /\ pcMain' = "returned"
    /\ UNCHANGED probe
    /\ SingleUnchanged

InitSingle ==
    /\ run \in SingleRuns
    /\ \E t \in Ids : task_ids = <<t>>
    /\ threads = 1
    /\ pcMain = "check"
    /\ pc = <<>>
    /\ check_first = FALSE
    /\ probe = [t \in SeqToSet(task_ids) |-> NoResp]
    /\ resp = [t \in SeqToSet(task_ids) |-> NoResp]
    /\ vote_calls = [t \in SeqToSet(task_ids) |-> 0]
    /\ local = <<>>
    /\ output_order = <<>>
    /\ next_output_idx = 0
    /\ output_lock = Free
    /\ output_buffer = <<>>
    /\ success_count = 0
    /\ already_count = 0
    /\ failed_count = 0
    /\ success_ids = <<>>
    /\ already_ids = <<>>
    /\ results = <<>>
    /\ printed = <<>>
    /\ records = <<>>
    /\ reported = <<>>
    /\ inserts = <<>>
    /\ raised = {}
    /\ SearchIdle
    /\ CrawlIdle
    /\ SeqIdle
    /\ NoWrapper
    /\ FreshPagination
    /\ AppIdle

NextSingle ==
    \/ \E t \in Tasks : SingleCheck(t)
    \/ \E t \in Tasks : SingleConfirm(t)
    \/ \E t \in Tasks : SingleVote(t)

SpecSingle == InitSingle /\ [][NextSingle]_vars

\* ----------------------------------------------------- MainScreen.run_task
\* Every button handler ends in run_task(func), which starts a daemon thread
\* running wrapper(); no handler waits for the task started before it, so the
\* wrappers of several tasks overlap.  task_ids are the tasks the user
\* starts, pc the position of each wrapper.
RunTaskUnchanged ==
    UNCHANGED <<voteVars, searchVars, crawlVars, seqVars, pageVars, appVars, run, task_ids, threads,
                pcMain>>

\* threading.Thread(target=wrapper, daemon=True).start(): the user starts the
\* tasks one after the other, at any time.
StartWrapper(t) ==
    /\ run = "run_task"
    /\ pc[t] = "new"
    /\ \A u \in Tasks : IndexOf(u) < IndexOf(t) => pc[u] # "new"
    /\ pc' = [pc EXCEPT ![t] = "save"]
    /\ UNCHANGED guiVars
    /\ RunTaskUnchanged

\* old_print = builtins.print
SavePrint(t) ==
    /\ run = "run_task"
    /\ pc[t] = "save"
    /\ old_print' = [old_print EXCEPT ![t] = builtins_print]
    /\ pc' = [pc EXCEPT ![t] = "set"]
    /\ UNCHANGED builtins_print
    /\ RunTaskUnchanged

\* builtins.print = self.log
SetPrint(t) ==
    /\ run = "run_task"
    /\ pc[t] = "set"
    /\ builtins_print' = LogMethod
    /\ pc' = [pc EXCEPT ![t] = "func"]
    /\ UNCHANGED old_print
    /\ RunTaskUnchanged

\* func() returns or raises; an exception is logged by the except branch.
\* Either way the finally branch is next.
RunFunc(t) ==
    /\ run = "run_task"
    /\ pc[t] = "func"
    /\ pc' = [pc EXCEPT ![t] = "finally"]
    /\ UNCHANGED guiVars
    /\ RunTaskUnchanged

\* finally: builtins.print = old_print; the thread ends.
RestorePrint(t) ==
    /\ run = "run_task"
    /\ pc[t] = "finally"
    /\ builtins_print' = old_print[t]
    /\ pc' = [pc EXCEPT ![t] = "done"]
    /\ UNCHANGED old_print
    /\ RunTaskUnchanged

\* The GUI is up, builtins.print is the built-in function, and the user is
\* about to start up to MaxTasks tasks.
InitRunTask ==
    /\ run = "run_task"
    /\ \E n \in 1 .. MaxTasks : task_ids = Range(1, n)
    /\ threads = Len(task_ids)
    /\ pcMain = "ui"
    /\ pc = [t \in SeqToSet(task_ids) |-> "new"]
    /\ builtins_print = OriginalPrint
    /\ old_print = [t \in SeqToSet(task_ids) |-> NotSaved]
    /\ VoteIdle
    /\ SearchIdle
    /\ CrawlIdle
    /\ SeqIdle
    /\ FreshPagination
    /\ AppIdle

NextRunTask ==
    \/ \E t \in Tasks : StartWrapper(t)
    \/ \E t \in Tasks : SavePrint(t)
    \/ \E t \in Tasks : SetPrint(t)
    \/ \E t \in Tasks : RunFunc(t)
    \/ \E t \in Tasks : RestorePrint(t)

SpecRunTask == InitRunTask /\ [][NextRunTask]_vars

\* ------------------------------------------------------ manual_browse_posts
\* Menu entry 4 of the console: reset_pagination, then get_next_page in a loop
\* until a page fails, is empty, has_more is false or the user types q.

BrowseRuns == {"manual_browse_posts"}

BrowseUnchanged ==
    UNCHANGED <<voteVars, searchVars, crawlVars, seqVars, guiVars, saverVars,
                loginVars, stateVars, logVars, run, task_ids, threads, pcMain,
                pc>>

\* The answers to input(): the empty line (continue) and q (quit).
BrowseInputs == {"", "q"}

Advance_always(result) == current_page + 1

\* get_next_page: `if result["success"]: self.current_page += 1`.
Advance(result) == IF result.kind = "posts" THEN current_page + 1 ELSE current_page

\* reset_pagination, called on entry of manual_browse_posts.
ResetPagination ==
    /\ run \in BrowseRuns
    /\ browse_pc = "menu"
    /\ current_page' = 1
    /\ has_more' = TRUE
    /\ browse_pc' = "next"
    /\ UNCHANGED <<browse_result, browse_fetched>>
    /\ BrowseUnchanged

\* get_next_page: None when has_more is false, else get_posts(page=current_page),
\* which sets has_more on a success and leaves it on a failure.
GetNextPage ==
    /\ run \in BrowseRuns
    /\ browse_pc = "next"
    /\ Len(browse_fetched) < MaxBrowse
    /\ IF ~has_more
       THEN /\ browse_result' = NoNextPage
            /\ UNCHANGED <<browse_fetched, current_page, has_more>>
       ELSE /\ browse_fetched' = Append(browse_fetched, current_page)
            /\ \/ /\ browse_result' = NextFailed
                  /\ has_more' = has_more
               \/ \E n \in 0 .. MaxPosts :
                     /\ has_more' \in HasMoreValues(n)
                     /\ browse_result' = NextPosts(n)
            /\ current_page' = Advance(browse_result')
    /\ browse_pc' = "got"
    /\ BrowseUnchanged

\* `if not result or not result.get("success"): break`, `if not posts: break`.
BrowseCheck ==
    /\ run \in BrowseRuns
    /\ browse_pc = "got"
    /\ browse_pc' = IF browse_result.kind = "posts" /\ browse_result.posts > 0
                    THEN "ask" ELSE "menu"
    /\ UNCHANGED <<pageVars, browse_result, browse_fetched>>
    /\ BrowseUnchanged

\* The posts of the page are shown one by one; q at a post or at the end of the
\* page leaves the function, anything else goes on.
BrowseAsk ==
    /\ run \in BrowseRuns
    /\ browse_pc = "ask"
    /\ \E user_input \in BrowseInputs :
          browse_pc' = IF user_input = "q" THEN "menu" ELSE "next"
    /\ UNCHANGED <<pageVars, browse_result, browse_fetched>>
    /\ BrowseUnchanged

InitBrowse ==
    /\ run = "manual_browse_posts"
    /\ task_ids = <<>>
    /\ threads = 1
    /\ pcMain = "start"
    /\ pc = <<>>
    /\ VoteIdle
    /\ SearchIdle
    /\ CrawlIdle
    /\ SeqIdle
    /\ NoWrapper
    /\ FreshPagination
    /\ SaverIdle
    /\ BrowseIdle
    /\ LoginIdle
    /\ StateIdle
    /\ LogIdle

NextBrowse ==
    \/ ResetPagination
    \/ GetNextPage
    \/ BrowseCheck
    \/ BrowseAsk

SpecBrowse == InitBrowse /\ [][NextBrowse]_vars

\* ------------------------------------------------ login of the GUI (main.py)
\* BDSMApp.init_app, LoginScreen (login, quick login, skip) and MainScreen
\* (logout, run_task). The print swap of run_task's wrapper is modelled in the
\* run_task section above.

LoginRuns == {"gui_login"}

LoginUnchanged ==
    UNCHANGED <<voteVars, searchVars, crawlVars, seqVars, guiVars, pageVars,
                saverVars, browseVars, stateVars, logVars, run, task_ids, threads,
                pcMain, pc>>

\* The tokens a login can come up with.
LoginTokens == {"tokenA", "tokenB"}

LoginThread(kind, token) == [kind |-> kind, token |-> token, pc |-> "test"]

GuiTask(require_login, position) == [require_login |-> require_login, pc |-> position]

\* `if token and test_token_valid(self.app.spider, token):` of _login_thread;
\* the two other paths test a token that is never None.
Accepts(token, valid) == token # NoToken /\ valid

\* LoginScreen.on_login starts _login_thread: login_with_account returns a
\* token or None, a typed token shorter than 20 characters ends the thread.
LoginStart ==
    /\ run \in LoginRuns
    /\ screen = "login"
    /\ Len(logins) < MaxLogins
    /\ \E token \in LoginTokens \cup {NoToken} :
          logins' = Append(logins, LoginThread("login", token))
    /\ UNCHANGED <<app_token, screen, pending, gui_tasks, validated>>
    /\ LoginUnchanged

\* LoginScreen.quick_login on a saved account: `if token:` starts the thread.
QuickLoginStart ==
    /\ run \in LoginRuns
    /\ screen = "login"
    /\ Len(logins) < MaxLogins
    /\ \E token \in LoginTokens :
          logins' = Append(logins, LoginThread("quick", token))
    /\ UNCHANGED <<app_token, screen, pending, gui_tasks, validated>>
    /\ LoginUnchanged

\* The rest of _login_thread, _quick_login_thread and _try_auto_login:
\* test_token_valid answers valid; on True spider.set_token, app.token = token
\* and show_main_screen is scheduled; on False only _try_auto_login schedules
\* a screen, the login screen.
TestToken(i) ==
    /\ run \in LoginRuns
    /\ i \in DOMAIN logins
    /\ logins[i].pc = "test"
    /\ \E valid \in BOOLEAN :
          LET token == logins[i].token
          IN  IF Accepts(token, valid)
              THEN /\ app_token' = token
                   /\ validated' = IF valid THEN validated \cup {token} ELSE validated
                   /\ pending' = pending \cup {"main"}
              ELSE /\ pending' = IF logins[i].kind = "auto"
                                 THEN pending \cup {"login"} ELSE pending
                   /\ UNCHANGED <<app_token, validated>>
    /\ logins' = [logins EXCEPT ![i].pc = "done"]
    /\ UNCHANGED <<screen, gui_tasks>>
    /\ LoginUnchanged

\* LoginScreen.skip_login.
SkipLogin ==
    /\ run \in LoginRuns
    /\ screen = "login"
    /\ app_token' = NoToken
    /\ pending' = pending \cup {"main"}
    /\ UNCHANGED <<screen, logins, gui_tasks, validated>>
    /\ LoginUnchanged

\* show_login_screen and show_main_screen, run by the Clock on the main thread.
Show(s) ==
    /\ run \in LoginRuns
    /\ s \in pending
    /\ screen' = s
    /\ pending' = pending \ {s}
    /\ UNCHANGED <<app_token, logins, gui_tasks, validated>>
    /\ LoginUnchanged

\* MainScreen.logout; threads that run_task started are left running.
Logout ==
    /\ run \in LoginRuns
    /\ screen = "main"
    /\ app_token' = NoToken
    /\ pending' = pending \cup {"login"}
    /\ UNCHANGED <<screen, logins, gui_tasks, validated>>
    /\ LoginUnchanged

\* MainScreen.run_task(func, require_login): refused with a log line when
\* require_login and not app.token, else the wrapper thread is started.
RunTask(require_login) ==
    /\ run \in LoginRuns
    /\ screen = "main"
    /\ Len(gui_tasks) < MaxGuiTasks
    /\ gui_tasks' = Append(gui_tasks,
          GuiTask(require_login,
                  IF require_login /\ app_token = NoToken THEN "refused"
                                                           ELSE "running"))
    /\ UNCHANGED <<app_token, screen, pending, logins, validated>>
    /\ LoginUnchanged

\* func() returns or raises in the wrapper thread.
TaskEnd(i) ==
    /\ run \in LoginRuns
    /\ i \in DOMAIN gui_tasks
    /\ gui_tasks[i].pc = "running"
    /\ gui_tasks' = [gui_tasks EXCEPT ![i].pc = "done"]
    /\ UNCHANGED <<app_token, screen, pending, logins, validated>>
    /\ LoginUnchanged

\* init_app: load_login_state returned a token, checked by _try_auto_login in
\* a thread, or None, and the login screen is shown.
InitLogin ==
    /\ run = "gui_login"
    /\ task_ids = <<>>
    /\ threads = 1
    /\ pcMain = "ui"
    /\ pc = <<>>
    /\ app_token = NoToken
    /\ screen = "loading"
    /\ \/ /\ logins = <<>>
          /\ pending = {"login"}
       \/ /\ \E token \in LoginTokens : logins = <<LoginThread("auto", token)>>
          /\ pending = {}
    /\ gui_tasks = <<>>
    /\ validated = {}
    /\ VoteIdle
    /\ SearchIdle
    /\ CrawlIdle
    /\ SeqIdle
    /\ NoWrapper
    /\ FreshPagination
    /\ SaverIdle
    /\ BrowseIdle
    /\ StateIdle
    /\ LogIdle

NextLogin ==
    \/ LoginStart
    \/ QuickLoginStart
    \/ \E i \in 1 .. MaxLogins : TestToken(i)
    \/ SkipLogin
    \/ \E s \in {"login", "main"} : Show(s)
    \/ Logout
    \/ \E require_login \in BOOLEAN : RunTask(require_login)
    \/ \E i \in 1 .. MaxGuiTasks : TaskEnd(i)

SpecLogin == InitLogin /\ [][NextLogin]_vars

\* ------------------------------------------------------- login_state.json
\* set_token / save_login_state, load_login_state and clear_login_state, with
\* the direct-token login (login_menu choice 3, LoginScreen token login) as
\* the caller of set_token. Time is counted in units of Lifetime / 2.

StateRuns == {"login_state"}

StateUnchanged ==
    UNCHANGED <<voteVars, searchVars, crawlVars, seqVars, guiVars, pageVars,
                saverVars, browseVars, loginVars, logVars, run, task_ids, threads,
                pcMain, pc>>

\* A token is a string; Tok(c, n) is the character c repeated n times.
Tok(c, n) == [i \in 1 .. n |-> c]

\* `if len(token) < 20: ... continue`.
MinTokenLen == 20

\* The tokens typed: one too short, one of the least length, two longer ones.
TypedTokens ==
    {Tok("a", MinTokenLen - 1), Tok("a", MinTokenLen), Tok("a", MinTokenLen + 1),
     Tok("b", MinTokenLen + 1)}

\* The direct-token login goes on to set_token unless the token is too short.
DirectAccepts(token) == Len(token) >= MinTokenLen

\* save_login_state: json.dump of token and expire_time = time.time() + 30 days.
LoginState(token) == [token |-> token, expire_time |-> now + Lifetime, exists |-> TRUE]

\* load_login_state: `if token and len(token) > 20`.
LongEnough(token) == Len(token) > 20

\* What load_login_state returns: a token, or None.
Returned(token) == [token |-> token, none |-> FALSE]
ReturnedNone == [token |-> <<>>, none |-> TRUE]

\* load_login_state: the token of an existing file whose expire_time is later
\* than now and whose token is long enough, else None.
load_login_state ==
    IF state_file.exists /\ state_file.expire_time > now
          /\ state_file.token # <<>> /\ LongEnough(state_file.token)
    THEN Returned(state_file.token)
    ELSE ReturnedNone

\* The direct-token login with a token it accepts: spider.set_token(token).
DirectLogin ==
    /\ run \in StateRuns
    /\ \E token \in TypedTokens :
          /\ DirectAccepts(token)
          /\ state_file' = LoginState(token)
    /\ UNCHANGED <<now, loaded>>
    /\ StateUnchanged

LoadLoginState ==
    /\ run \in StateRuns
    /\ Len(loaded) < MaxLoads
    /\ loaded' = Append(loaded, load_login_state)
    /\ UNCHANGED <<state_file, now>>
    /\ StateUnchanged

\* clear_login_state: os.remove when the file exists.
ClearLoginState ==
    /\ run \in StateRuns
    /\ state_file' = NoFile
    /\ UNCHANGED <<now, loaded>>
    /\ StateUnchanged

\* Time passes.
Tick ==
    /\ run \in StateRuns
    /\ now < MaxTime
    /\ now' = now + 1
    /\ UNCHANGED <<state_file, loaded>>
    /\ StateUnchanged

InitState ==
    /\ run = "login_state"
    /\ task_ids = <<>>
    /\ threads = 1
    /\ pcMain = "start"
    /\ pc = <<>>
    /\ VoteIdle
    /\ SearchIdle
    /\ CrawlIdle
    /\ SeqIdle
    /\ NoWrapper
    /\ FreshPagination
    /\ SaverIdle
    /\ BrowseIdle
    /\ LoginIdle
    /\ StateIdle
    /\ LogIdle

NextState ==
    \/ DirectLogin
    \/ LoadLoginState
    \/ ClearLoginState
    \/ Tick

SpecState == InitState /\ [][NextState]_vars

\* ------------------------------------------------------- the GUI log
\* MainScreen.log and _flush_log_buffer. Both run on the main thread (log is
\* @mainthread, the flush is a Clock event), one callback at a time. Messages
\* are numbered in the order log receives them.

LogRuns == {"gui_log"}

LogUnchanged ==
    UNCHANGED <<voteVars, searchVars, crawlVars, seqVars, guiVars, pageVars,
                saverVars, browseVars, loginVars, stateVars, run, task_ids,
                threads, pcMain, pc>>

\* `if len(self._log_lines) > 500: self._log_lines = self._log_lines[-400:]`,
\* with LogLimit for 500 and LogKeep for 400.
Truncate(lines) ==
    IF Len(lines) > LogLimit
    THEN SubSeq(lines, Len(lines) - LogKeep + 1, Len(lines))
    ELSE lines

\* log(*args): append to the buffer, schedule a flush unless one is scheduled.
Log ==
    /\ run \in LogRuns
    /\ logged < MaxMessages
    /\ logged' = logged + 1
    /\ log_buffer' = Append(log_buffer, logged')
    /\ IF ~log_update_scheduled
       THEN /\ log_update_scheduled' = TRUE
            /\ flush_events' = flush_events + 1
       ELSE UNCHANGED <<log_update_scheduled, flush_events>>
    /\ UNCHANGED <<log_lines, moved, displayed>>
    /\ LogUnchanged

\* _flush_log_buffer, run by the Clock: the buffer goes to _log_lines, which is
\* cut to its newest lines when too long and then put into log_text.text.
FlushLogBuffer ==
    /\ run \in LogRuns
    /\ flush_events > 0
    /\ flush_events' = flush_events - 1
    /\ log_update_scheduled' = FALSE
    /\ IF log_buffer = <<>>
       THEN UNCHANGED <<log_buffer, log_lines, moved, displayed>>
       ELSE /\ log_lines' = Truncate(log_lines \o log_buffer)
            /\ moved' = moved \o log_buffer
            /\ log_buffer' = <<>>
            /\ displayed' = displayed \cup SeqToSet(log_lines')
    /\ UNCHANGED logged
    /\ LogUnchanged

\* clear_log, the button of the log panel.
ClearLog ==
    /\ run \in LogRuns
    /\ log_lines # <<>>
    /\ log_lines' = <<>>
    /\ UNCHANGED <<log_buffer, log_update_scheduled, flush_events, logged, moved,
                   displayed>>
    /\ LogUnchanged

InitLog ==
    /\ run = "gui_log"
    /\ task_ids = <<>>
    /\ threads = 1
    /\ pcMain = "ui"
    /\ pc = <<>>
    /\ VoteIdle
    /\ SearchIdle
    /\ CrawlIdle
    /\ SeqIdle
    /\ NoWrapper
    /\ FreshPagination
    /\ SaverIdle
    /\ BrowseIdle
    /\ LoginIdle
    /\ StateIdle
    /\ LogIdle

NextLog ==
    \/ Log
    \/ FlushLogBuffer
    \/ ClearLog

SpecLog == InitLog /\ [][NextLog]_vars

\* The Clock runs every event that has been scheduled.
SpecLogFair == SpecLog /\ WF_vars(FlushLogBuffer)

\* --------------------------------------------------------- every operation
Init == InitVote \/ InitGui \/ InitSearch \/ InitCrawl

Next ==
    \/ Submit
    \/ Report
    \/ \E t \in Tasks : StartTask(t)
    \/ \E t \in Tasks : VoteCheck(t)
    \/ \E t \in Tasks : VoteDo(t)
    \/ \E t \in Tasks : AcquireOutput(t)
    \/ \E t \in Tasks : Insert(t)
    \/ \E t \in Tasks : FlushCount(t)
    \/ \E t \in Tasks : FlushEmit(t)
    \/ \E t \in Tasks : FlushExit(t)
    \/ \E t \in Tasks : StoreResult(t)
    \/ GuiOpen
    \/ GuiReport
    \/ \E t \in Tasks : GuiVote(t)
    \/ \E t \in Tasks : GuiAcquire(t)
    \/ \E t \in Tasks : GuiCount(t)
    \/ SearchReturn
    \/ \E p \in Tasks : GetPosts(p)
    \/ \E p \in Tasks : NextPost(p)
    \/ \E p \in Tasks : PageDone(p)
    \/ \E p \in Tasks : CacheCheck(p)
    \/ \E p \in Tasks : Fetch(p)
    \/ \E p \in Tasks : AcquireSearch(p)
    \/ \E p \in Tasks : Found(p)
    \/ CrawlOpen
    \/ ProcessPage
    \/ CrawlReport
    \/ \E p \in Tasks : FetchPage(p)
    \/ \E p \in Tasks : FetchAcquire(p)
    \/ \E p \in Tasks : FetchRecord(p)
    \/ \E p \in Tasks : Collect(p)

Spec == Init /\ [][Next]_vars

\* ------------------------------------------------------------------ claims
InCritical(t) == pc[t] \in {"insert", "flush", "emit"}

Inserted(t) == pc[t] \in {"flush", "emit", "res", "done"}

IsPrefix(s, full) ==
    /\ Len(s) <= Len(full)
    /\ \A i \in 1 .. Len(s) : s[i] = full[i]

CountSum == success_count + already_count + failed_count

\* C1: in batch_vote, whatever the completion order, flush_output prints and
\* records the task ids in the order of output_order, each once: what has
\* been emitted is always a prefix of output_order, the records follow the
\* prints, and when the run has returned everything has been emitted.
C1_OrderedEmission ==
    run = "batch_vote" =>
        /\ IsPrefix(printed, output_order)
        /\ Len(records) = Len(printed)
        /\ \A i \in 1 .. Len(records) : records[i][1] = printed[i]
        /\ Len(printed) = next_output_idx
        /\ (AllDone => printed = output_order)

\* The thread of the first task drains the results of the two later tasks,
\* which completed before it.
C1_Witness ==
    /\ run = "batch_vote"
    /\ Len(task_ids) = MaxTasks
    /\ output_lock = task_ids[1]
    /\ printed = task_ids

\* C2: when the pool has finished, the three counters add up to len(task_ids).
C2_CountsAddUp ==
    (run = "batch_vote" /\ AllDone) => CountSum = Len(task_ids)

C2_Witness ==
    /\ run = "batch_vote"
    /\ AllDone
    /\ Len(task_ids) = MaxTasks
    /\ success_count >= 1
    /\ already_count >= 1
    /\ failed_count >= 1

\* C3: every task id is inserted into output_buffer exactly once and gets one
\* entry in results, equal to what was inserted; a task whose try body raised
\* is inserted and stored with result type "failed".
C3_OneResultPerTask ==
    run = "batch_vote" =>
        \A t \in Tasks :
            /\ inserts[t] <= 1
            /\ (Inserted(t) \/ pc[t] = "done") => inserts[t] = 1
            /\ (pc[t] = "done") <=> (t \in DOMAIN results)
            /\ (pc[t] = "done") => results[t] = local[t]
            /\ (t \in raised /\ pc[t] = "done") => results[t][1] = "failed"

C3_Witness ==
    /\ run = "batch_vote"
    /\ AllDone
    /\ Len(task_ids) = MaxTasks
    /\ raised = Tasks
    /\ \A t \in Tasks : inserts[t] = 1 /\ results[t][1] = "failed"

\* C4: once every task has inserted its result and the inserting thread has
\* left the critical section, everything has been emitted: next_output_idx is
\* len(output_order) and output_buffer is empty; and until the run returns
\* some step is always possible (no deadlock).
C4_AllEmitted ==
    run = "batch_vote" =>
        /\ ((\A t \in Tasks : inserts[t] = 1) /\ output_lock = Free)
              => (next_output_idx = Len(output_order) /\ DOMAIN output_buffer = {})
        /\ (pcMain # "returned" => ENABLED NextVote)

C4_Witness ==
    /\ run = "batch_vote"
    /\ Len(task_ids) = MaxTasks
    /\ \A t \in Tasks : inserts[t] = 1
    /\ output_lock = Free
    /\ next_output_idx = MaxTasks
    /\ \E t \in Tasks : pc[t] = "res"

\* C5: the counters change only inside flush_output, once per emitted result:
\* whenever output_lock is free (and while a holder is between two loop
\* iterations) the counters add up to next_output_idx, and between the
\* counting and the emission of one result they are exactly one ahead.
C5_CountsMatchIndex ==
    run = "batch_vote" =>
        /\ (output_lock = Free => CountSum = next_output_idx)
        /\ \A t \in Tasks :
              /\ pc[t] \in {"insert", "flush"} => CountSum = next_output_idx
              /\ pc[t] = "emit" => CountSum = next_output_idx + 1
        /\ Len(success_ids) = success_count
        /\ Len(already_ids) = already_count

C5_Witness ==
    /\ run = "batch_vote"
    /\ output_lock = Free
    /\ next_output_idx = 2
    /\ already_count = 1
    /\ failed_count = 1
    /\ ~AllDone

\* C6: insertion and drain form one critical section under output_lock: a
\* thread that is inserting or draining holds the lock, at most one thread
\* is, and the lock is held only by such a thread.
C6_MutualExclusion ==
    run = "batch_vote" =>
        /\ \A t \in Tasks : InCritical(t) <=> output_lock = t
        /\ \A t, u \in Tasks : (InCritical(t) /\ InCritical(u)) => t = u
        /\ output_lock # Free => output_lock \in Tasks

C6_Witness ==
    /\ run = "batch_vote"
    /\ \E t, u \in Tasks :
          /\ t # u
          /\ pc[t] = "emit"
          /\ pc[u] = "lock"

\* C7: single flight.  For every user id at most one underlying fetch
\* (get_complete_user_info) is made, and all the callers that hold a dict for
\* the same user id hold the same dict.
C7_SingleFlight ==
    run = "search_all" =>
        /\ \A u \in UserIds : fetches[u] <= 1
        /\ \A p, q \in Tasks :
              (Truthy(sloc[p].full_info) /\ Truthy(sloc[q].full_info)
               /\ sloc[p].full_info.id = sloc[q].full_info.id)
                 => SameDict(sloc[p].full_info, sloc[q].full_info)

\* C8: one call of get_user_full_info_cached(k) by page p.  With k cached the
\* step returns the cached dict, fetches nothing and leaves the cache alone;
\* with k not cached the call goes on to the fetch, and the fetch step makes
\* exactly one call of get_complete_user_info for k, stores that dict under
\* k (no other key changes) and returns it.
C8_Step(p) ==
    LET k == sloc[p].user_id IN
    /\ (pc[p] = "cache" /\ pc'[p] # "cache") =>
          /\ fetches' = fetches
          /\ user_cache' = user_cache
          /\ IF k \in DOMAIN user_cache
             THEN pc'[p] # "fetch" /\ sloc'[p].full_info = user_cache[k]
             ELSE pc'[p] = "fetch"
    /\ (pc[p] = "fetch" /\ pc'[p] # "fetch") =>
          /\ fetches' = [fetches EXCEPT ![k] = @ + 1]
          /\ k \in DOMAIN user_cache'
          /\ user_cache'[k].id = k
          /\ user_cache'[k].obj = fetches'[k]
          /\ sloc'[p].full_info = user_cache'[k]
          /\ \A j \in DOMAIN user_cache \ {k} :
                j \in DOMAIN user_cache' /\ user_cache'[j] = user_cache[j]

C8_ReadThrough == [][run = "search_all" => \A p \in Tasks : C8_Step(p)]_vars

\* A page holds the dict another page fetched: its lookup was a cache hit.
C8_Witness ==
    /\ run = "search_all"
    /\ \E p, q \in Tasks :
          /\ p # q
          /\ Truthy(sloc[p].full_info)
          /\ SameDict(sloc[p].full_info, sloc[q].full_info)
          /\ fetches[sloc[p].full_info.id] = 1

\* C10: the voting classifier.  A reply with HTTP 200, a JSON object and
\* code 1 is "success"; one with code 0 and a msg that is a string holding
\* one of the three markers is "already"; every other reply (request error,
\* HTTP status other than 200, malformed body, other code, code 0 without a
\* marker) is "failed".
C10_IsOk(r) == r.kind = "http" /\ r.status = "200" /\ r.body.json

C10_Marked(msg) ==
    /\ msg # NoneMsg
    /\ \E i \in 1 .. Len(msg) : \E j \in i .. Len(msg) :
          SubSeq(msg, i, j) \in {<<"yi", "tou">>, <<"chong", "fu">>, <<"tou", "guo">>}

C10_Expected(r) ==
    IF C10_IsOk(r) /\ r.body.code = "1" THEN "success"
    ELSE IF C10_IsOk(r) /\ r.body.code = "0" /\ C10_Marked(r.body.msg) THEN "already"
    ELSE "failed"

C10_Classifier ==
    (run = "classify" /\ pc[1] = "classified") => local[1][1] = C10_Expected(resp[1])

C10_Witness ==
    /\ run = "classify"
    /\ pc[1] = "classified"
    /\ resp[1] = Http("200", Body("0", <<"tou", "guo", "le">>, ""))
    /\ local[1][1] = "already"

\* C9: an exception raised while one task is processed (process_task of
\* batch_vote, process_task of batch_vote_gui, search_page, fetch_page)
\* never aborts the pool or changes the outcome of another task: the run
\* goes on until it returns, every task has then completed, each raising
\* task is counted as exactly one failure, each other task has its normal
\* outcome, and no index of the ordered output is dropped.
C9_IsFailed(t) ==
    CASE run = "batch_vote" -> t \in DOMAIN results /\ results[t][1] = "failed"
      [] run = "batch_vote_gui" -> t \in DOMAIN results /\ results[t][1] = FALSE
      [] run = "crawl_and_save_posts" ->
            \E i \in 1 .. Len(records) : records[i][1] = t /\ records[i][2] = "failed"
      [] OTHER -> \E i \in 1 .. Len(records) : records[i][1] = t /\ records[i][2] = "failed"

C9_FailuresCounted ==
    CASE run = "batch_vote" -> failed_count
      [] run = "batch_vote_gui" -> failed_count
      [] run = "crawl_and_save_posts" -> failed_pages
      [] OTHER -> Len(records)

C9_NormalOutcome(t) ==
    CASE run = "batch_vote" ->
            t \in DOMAIN results /\ results[t] = ResultOf(vote_do(resp[t]))
      [] run = "batch_vote_gui" ->
            /\ t \in DOMAIN results
            /\ results[t] = <<vote_do(resp[t])[1], vote_do(resp[t])[3], vote_do(resp[t])[4]>>
      [] run = "crawl_and_save_posts" ->
            /\ t \in DOMAIN page_results <=> local[t].kind = "posts"
            /\ t \in DOMAIN page_results => page_results[t] = local[t].posts
      [] OTHER -> pc[t] = "done"

C9_ExceptionIsolation ==
    /\ pcMain \notin {"returned", "raised"} => ENABLED Next
    /\ pcMain = "returned" =>
          /\ \A t \in Tasks : pc[t] = "done"
          /\ run = "batch_vote" => next_output_idx = Len(output_order)
          /\ \A t \in raised : C9_IsFailed(t)
          /\ C9_FailuresCounted = Cardinality({t \in Tasks : C9_IsFailed(t)})
          /\ \A t \in Tasks \ raised : C9_NormalOutcome(t)

\* C11: at the end of a batch_vote run success_count is the number of tasks
\* whose vote reply was code 1, already_count the number whose reply was
\* code 0 with an already-voted marker, and failed_count the number of all
\* other tasks; an "already" result is never added to failed_count.
C11_Replied(kind) == {t \in Tasks : C10_Expected(resp[t]) = kind}

C11_CountsByReply ==
    (run = "batch_vote" /\ pcMain = "returned") =>
        /\ success_count = Cardinality(C11_Replied("success"))
        /\ already_count = Cardinality(C11_Replied("already"))
        /\ failed_count = Len(task_ids) - Cardinality(C11_Replied("success"))
                                        - Cardinality(C11_Replied("already"))

C11_Witness ==
    /\ run = "batch_vote"
    /\ pcMain = "returned"
    /\ C11_Replied("success") # {}
    /\ C11_Replied("already") # {}
    /\ \E t \in Tasks : resp[t] = NetError("timeout")

\* C12: for a fixed mapping from task id to remote reply, batch_vote runs that
\* differ only in the number of worker threads end with the same counters
\* and the same emission sequence.  The final counters, the printed ids and
\* the records are a function of task_ids, check_first and the replies
\* alone: neither threads nor the schedule occurs in C12_Emitted.
C12_Emitted(t) ==
    IF check_first /\ UnpackRaises(5, vote_check(probe[t])) THEN HandlerResult
    ELSE IF check_first /\ ~vote_check(probe[t])[1]
    THEN LET ret == vote_check(probe[t]) IN <<"failed", ret[3], ret[4], ret[5]>>
    ELSE ResultOf(vote_do(resp[t]))

C12_Number(kind) == Cardinality({t \in Tasks : C12_Emitted(t)[1] = kind})

C12_ThreadsDoNotMatter ==
    (run = "batch_vote" /\ pcMain = "returned") =>
        /\ printed = task_ids
        /\ records = [i \in 1 .. Len(task_ids) |->
                         <<task_ids[i], C12_Emitted(task_ids[i])[1],
                           C12_Emitted(task_ids[i])[3]>>]
        /\ success_count = C12_Number("success")
        /\ already_count = C12_Number("already")
        /\ failed_count = C12_Number("failed")
        /\ reported = <<C12_Number("success") + C12_Number("already"),
                        C12_Number("failed"), Len(task_ids)>>

C12_Witness ==
    /\ run = "batch_vote"
    /\ pcMain = "returned"
    /\ threads = MinThreads
    /\ Len(task_ids) = MaxTasks
    /\ C12_Number("success") >= 1
    /\ C12_Number("already") >= 1
    /\ C12_Number("failed") >= 1
    /\ resp[task_ids[1]] # resp[task_ids[MaxTasks]]

\* C13: when batch_vote_gui has completed, saver.save_record has received one
\* record for every task id of task_ids, each exactly once, in ascending
\* task-id (submission) order.
C13_GuiRecordsInOrder ==
    (run = "batch_vote_gui" /\ pcMain = "returned") =>
        /\ Len(records) = Len(task_ids)
        /\ \A i \in 1 .. Len(records) : records[i][1] = task_ids[i]

\* C14: in batch_vote_gui every task increments exactly one counter, exactly
\* once: each counter is the number of finished tasks with a reply of its
\* class, and when the pool has finished the three add up to len(task_ids).
C14_Finished(kind) ==
    {t \in Tasks : pc[t] = "done" /\ C10_Expected(resp[t]) = kind}

C15_Valid(r) == C10_IsOk(r) /\ r.body.code = "1"

C15_Probed(t) == probe[t] # NoResp

C15_InvalidProbeFails ==
    (run = "batch_vote" /\ check_first) =>
        \A t \in Tasks :
            (C15_Probed(t) /\ ~C15_Valid(probe[t])) =>
                /\ pc[t] # "vote"
                /\ resp[t] = NoResp
                /\ t \in DOMAIN output_buffer => output_buffer[t][1] = "failed"
                /\ t \in DOMAIN results => results[t][1] = "failed"
                /\ \A i \in 1 .. Len(records) :
                      records[i][1] = t => records[i][2] = "failed"
                /\ pc[t] = "done" => t \in DOMAIN results
                /\ pcMain = "returned" =>
                      \E i \in 1 .. Len(records) : records[i][1] = t

C15_Witness ==
    /\ run = "batch_vote"
    /\ check_first
    /\ pcMain = "returned"
    /\ \E t \in Tasks :
          /\ C15_Probed(t)
          /\ ~C15_Valid(probe[t])
          /\ results[t][1] = "failed"
          /\ resp[t] = NoResp

\* C16: in batch_vote with check_first set, a task whose probe reports the
\* task valid goes on to vote_do, and its result type is the classification
\* of vote_do's reply.
C16_ValidProbeVotes ==
    (run = "batch_vote" /\ check_first) =>
        \A t \in Tasks :
            (C15_Probed(t) /\ C15_Valid(probe[t]) /\ pc[t] = "done") =>
                /\ resp[t] # NoResp
                /\ t \in DOMAIN results
                /\ results[t][1] = C10_Expected(resp[t])

\* C17: when the vote request of a task fails with a network error (timeout,
\* connection refused), the task is classified "failed" and the message of
\* its emitted and recorded result is the original error message.
C17_Mentions(msg, e) == \E j \in 1 .. Len(msg) : msg[j] = e

C17_NetworkErrorKept ==
    run = "batch_vote" =>
        \A i \in 1 .. Len(records) :
            LET t == records[i][1]
            IN  resp[t].kind = "exc" =>
                    /\ records[i][2] = "failed"
                    /\ C17_Mentions(records[i][3], resp[t].err)

\* C18: a batch run set up with a pool size <= 0 or with no task key
\* (batch_vote_gui with end_id < start_id or threads <= 0,
\* crawl_and_save_posts with max_pages <= 0 or threads <= 0) fails before
\* any task is submitted: no unit of work runs, and the run does not
\* complete as a normal run with zero tasks.
C18_BadSetup ==
    /\ run \in {"batch_vote_gui", "crawl_and_save_posts"}
    /\ (threads <= 0 \/ task_ids = <<>>)

C18_FailFast ==
    C18_BadSetup =>
        /\ \A t \in Tasks : pc[t] = "new"
        /\ pcMain \in {"start", "raised"}
        /\ reported = <<>>

\* C19: in every pooled run (batch_vote, batch_vote_gui,
\* crawl_and_save_posts, search_all) with pool size W = threads, the number
\* of units of work executing at the same time never exceeds W.
C19_Executing == {t \in Tasks : pc[t] \notin {"new", "queued", "done"}}

C19_PoolBound == Cardinality(C19_Executing) <= threads

C19_Witness ==
    /\ Cardinality(C19_Executing) = threads
    /\ threads >= 2
    /\ \E t \in Tasks : pc[t] = "queued"

\* C20: a pooled run returns to its caller only after all submitted tasks
\* have reached a terminal state: the final counters of batch_vote and
\* batch_vote_gui, the found_users list that search_all returns and the
\* pages crawl_and_save_posts goes on to process are read only when no task
\* is pending or running.
C20_NoneLeft == \A t \in Tasks : pc[t] = "done"

C20_ReturnsAfterAll ==
    /\ pcMain \in {"process", "returned"} => C20_NoneLeft
    /\ reported # <<>> => C20_NoneLeft
    /\ (run \in {"batch_vote", "batch_vote_gui"} /\ pcMain = "returned") =>
          /\ reported[2] = failed_count
          /\ reported[3] = Len(task_ids)
          /\ Cardinality(DOMAIN results) = Len(task_ids)
    /\ (run = "search_all" /\ pcMain = "returned") => reported = found_users

C20_Witness ==
    /\ pcMain = "returned"
    /\ run = "search_all"
    /\ Len(task_ids) = MaxPages
    /\ threads < MaxPages
    /\ found_users # <<>>

\* ---------------------------------------------------------------------- C21
\* C21: within one batch run (batch_vote, batch_vote_gui) vote_do is called at
\* most once for every task id, whatever the call returned: a failed or
\* timed-out call is not repeated.
C21_NoRetry ==
    run \in {"batch_vote", "batch_vote_gui"} =>
        \A t \in Tasks : vote_calls[t] <= 1

\* Both runs have returned after a call that timed out, and that task's
\* vote_do was called once.
C21_Witness ==
    /\ run \in {"batch_vote", "batch_vote_gui"}
    /\ pcMain = "returned"
    /\ \E t \in Tasks : resp[t] = NetError("timeout") /\ vote_calls[t] = 1
    /\ \E t \in Tasks : resp[t] = Http("200", Body("0", <<"ok">>, "")) /\ vote_calls[t] = 1

\* ---------------------------------------------------------------------- C22
C22_Fetched(kind) == {p \in Tasks : pc[p] = "done" /\ local[p].kind = kind}

\* C22: in crawl_and_save_posts a page whose fetch returns an empty list is
\* no failure (failed_pages is not incremented, the page is not put into
\* page_results), a page with posts is put into page_results, and a page
\* whose fetch reports an error increments failed_pages by exactly one.
C22_PageOutcomes ==
    run = "crawl_and_save_posts" =>
        /\ failed_pages = Cardinality(C22_Fetched("failed"))
        /\ DOMAIN page_results = C22_Fetched("posts") \cap SeqToSet(collected)
        /\ \A p \in DOMAIN page_results : page_results[p] = local[p].posts
        /\ pcMain \in {"process", "returned"} =>
              DOMAIN page_results = {p \in Tasks : local[p].kind = "posts"}

\* The crawl has returned with one empty page and one page with posts: only
\* the latter is in page_results, and no failure was counted.
C22_Witness ==
    /\ run = "crawl_and_save_posts"
    /\ pcMain = "returned"
    /\ \E p \in Tasks : local[p] = FetchEmpty /\ p \notin DOMAIN page_results
    /\ \E p \in Tasks : local[p].kind = "posts" /\ p \in DOMAIN page_results
    /\ failed_pages = 0

\* ---------------------------------------------------------------------- C23
\* The result type process_task computes for a reply, with the code and the
\* message vote_do hands back for it.
C23_Type(r) == IF vote_do(r)[1] THEN (IF vote_do(r)[3] = "1" THEN "success" ELSE "already")
               ELSE "failed"

\* Over every reply of the endpoint: equal (code, message) give equal types.
C23_Pure ==
    \A r1 \in Responses, r2 \in Responses :
        (vote_do(r1)[3] = vote_do(r2)[3] /\ vote_do(r1)[4] = vote_do(r2)[4])
            => C23_Type(r1) = C23_Type(r2)

\* C23: the classification is deterministic.  Two task results with the same
\* (code, message) have the same result type, whatever the task ids, the
\* threads, the order of completion and the counters; and the type of a task
\* whose vote_do was called is the type of its reply.
C23_Deterministic ==
    /\ C23_Pure
    /\ run = "batch_vote" =>
          /\ \A t \in DOMAIN results, u \in DOMAIN results :
                (results[t][2] = results[u][2] /\ results[t][3] = results[u][3])
                    => results[t][1] = results[u][1]
          /\ \A t \in DOMAIN results :
                vote_calls[t] = 1 => results[t][1] = C23_Type(resp[t])

\* Two tasks of one run got the same reply, a third one in between timed
\* out; the two have the same type.
C23_Witness ==
    /\ run = "batch_vote"
    /\ pcMain = "returned"
    /\ Len(task_ids) = 3
    /\ resp[task_ids[1]] = Http("200", Body("1", <<"ok">>, ""))
    /\ resp[task_ids[3]] = Http("200", Body("1", <<"ok">>, ""))
    /\ resp[task_ids[2]] = NetError("timeout")
    /\ results[task_ids[1]][1] = "success"
    /\ results[task_ids[3]][1] = "success"
    /\ success_count = 2

\* ---------------------------------------------------------------------- C24
\* C24: a searcher starts with an empty user_cache, and no step of its
\* lifetime removes a user id from user_cache or puts another user's record
\* under it: the id stays, with a record of that id.
C24_NeverEvicts ==
    /\ user_cache = <<>>
    /\ [][run = "search_all" =>
             \A k \in DOMAIN user_cache :
                 /\ k \in DOMAIN user_cache'
                 /\ user_cache'[k].id = k]_vars

\* search_all has returned with both users cached: the store of the second
\* user left the first one's entry in place.
C24_Witness ==
    /\ run = "search_all"
    /\ pcMain = "returned"
    /\ DOMAIN user_cache = UserIds
    /\ \A k \in UserIds : fetches[k] = 1 /\ user_cache[k].id = k

\* ---------------------------------------------------------------------- C25
\* The pages whose statistics record ResultSaver has received, in order.
C25_Saved == SelectSeq(records, LAMBDA r : r[2] = "stats")

\* C25: crawl_and_save_posts processes and saves the fetched pages in
\* ascending page-number order, whatever order the fetches completed in, and
\* every fetched page exactly once.
C25_AscendingPages ==
    run = "crawl_and_save_posts" =>
        /\ \A i \in 1 .. Len(printed), j \in 1 .. Len(printed) :
              i < j => printed[i] < printed[j]
        /\ SeqToSet(printed) \subseteq DOMAIN page_results
        /\ Len(C25_Saved) = Len(printed)
        /\ \A i \in 1 .. Len(printed) : C25_Saved[i][1] = printed[i]
        /\ pcMain = "returned" =>
              SeqToSet(printed) = {p \in Tasks : local[p].kind = "posts"}

\* Two pages with posts, the later page's fetch collected first; both are
\* processed, the earlier page first.
C25_Witness ==
    /\ run = "crawl_and_save_posts"
    /\ pcMain = "returned"
    /\ Len(task_ids) = 2
    /\ collected = <<task_ids[2], task_ids[1]>>
    /\ printed = task_ids
    /\ \A p \in Tasks : local[p].kind = "posts"

\* ---------------------------------------------------------------------- C26
\* The pages requested so far are 1, 2, ... and at most max_pages of them.
C26_InOrder ==
    run \in SeqRuns =>
        /\ requested = Range(1, Len(requested))
        /\ Len(requested) <= max_pages

\* A page is requested only when the page before it gave posts and, in
\* crawl_user_posts_gui, had has_more set.
C26_Request ==
    (run \in SeqRuns /\ requested' # requested /\ requested # <<>>) =>
        /\ last_result.kind = "posts"
        /\ run = "crawl_user_posts_gui" => last_result.has_more

\* C26: crawl_user_posts_gui and search_and_save_posts_gui request the pages
\* in the order 1, 2, ..., at most max_pages of them, request no page after
\* the first one that fails or is empty (or, in crawl_user_posts_gui, has
\* has_more false), and return.
C26_SequentialCrawl ==
    /\ []C26_InOrder
    /\ [][C26_Request]_vars
    /\ <>(pcMain = "returned")

\* crawl_user_posts_gui was asked for two pages and has returned after the
\* first one, which had posts and has_more false.
C26_Witness ==
    /\ run = "crawl_user_posts_gui"
    /\ pcMain = "returned"
    /\ max_pages = 2
    /\ requested = <<1>>
    /\ last_result.kind = "posts"
    /\ ~last_result.has_more

\* ---------------------------------------------------------------------- C27
\* C27: vote_single_gui and vote_single_test send the vote request only after
\* the check request came back with HTTP 200 and code 1; after a check that
\* failed, gave another code or raised, no vote request is sent.
C27_CheckBeforeVote ==
    run \in SingleRuns =>
        \A t \in Tasks :
            /\ vote_calls[t] <= 1
            /\ vote_calls[t] = 1 =>
                  /\ probe[t].kind = "http"
                  /\ probe[t].status = "200"
                  /\ probe[t].body.json
                  /\ probe[t].body.code = "1"
            /\ pcMain = "vote" =>
                  /\ probe[t].kind = "http"
                  /\ probe[t].status = "200"
                  /\ probe[t].body.code = "1"

\* vote_single_gui has sent the vote after a check with code 1.
C27_Witness ==
    /\ run = "vote_single_gui"
    /\ pcMain = "returned"
    /\ \E t \in Tasks :
          /\ probe[t] = Http("200", Body("1", <<"ok">>, ""))
          /\ vote_calls[t] = 1
          /\ resp[t] # NoResp

\* ---------------------------------------------------------------------- C28
\* C28: in batch_vote, whenever no thread holds output_lock, every task id in
\* output_buffer sits at a position >= next_output_idx of output_order and
\* the id at position next_output_idx is not in output_buffer; and an entry
\* leaves output_buffer exactly when it is emitted: the buffer holds the
\* results that were inserted and not emitted yet.
C28_BufferInvariant ==
    run = "batch_vote" =>
        /\ DOMAIN output_buffer =
              {t \in Tasks : inserts[t] > 0} \ SeqToSet(printed)
        /\ output_lock = Free =>
              /\ \A t \in DOMAIN output_buffer :
                    \E i \in 1 .. Len(output_order) :
                        output_order[i] = t /\ i - 1 >= next_output_idx
              /\ next_output_idx < Len(output_order) =>
                    output_order[next_output_idx + 1] \notin DOMAIN output_buffer

\* The lock is free, the first task has been emitted and the third one waits
\* in the buffer for the second.
C28_Witness ==
    /\ run = "batch_vote"
    /\ output_lock = Free
    /\ Len(task_ids) = 3
    /\ next_output_idx = 1
    /\ printed = <<task_ids[1]>>
    /\ DOMAIN output_buffer = {task_ids[3]}

\* ---------------------------------------------------------------------- C29
\* C29: under every interleaving of search_page calls found_users has at most
\* one entry per user id, its ids are the ids of seen_user_ids, and whenever
\* the lock is free len(found_users) == len(seen_user_ids).
C29_OneEntryPerUser ==
    run = "search_all" =>
        /\ \A i \in 1 .. Len(found_users), j \in 1 .. Len(found_users) :
              found_users[i].id = found_users[j].id => i = j
        /\ {found_users[i].id : i \in 1 .. Len(found_users)} = seen_user_ids
        /\ lock = Free => Len(found_users) = Cardinality(seen_user_ids)

\* Page p has been through the with block with a user that page q had
\* already added: found_users still has one entry, the one of page q.
C29_Witness ==
    /\ run = "search_all"
    /\ lock = Free
    /\ Len(found_users) = 1
    /\ \E p \in Tasks :
          /\ pc[p] = "post"
          /\ sloc[p].user_id = found_users[1].id
          /\ Matches(sloc[p].full_info)
          /\ found_users[1].found_page # p

\* ---------------------------------------------------------------------- C30
\* C30: once every background task that run_task started has finished,
\* builtins.print is the original print function again, also when two or more
\* of the tasks overlapped.
C30_PrintRestored ==
    (run = "run_task" /\ \A t \in Tasks : pc[t] \in {"new", "done"})
        => builtins_print = OriginalPrint

\* ---------------------------------------------------------------------- C31
\* The pages recorded as empty.
C31_EmptyPages == {p \in Tasks : \E i \in 1 .. Len(records) :
                                    records[i][1] = p /\ records[i][2] = "empty"}

RECURSIVE C31_Sum(_, _)
C31_Sum(f, S) ==
    IF S = {} THEN 0
    ELSE LET x == CHOOSE y \in S : TRUE IN f[x] + C31_Sum(f, S \ {x})

\* C31: when the fetches of crawl_and_save_posts are complete every page of
\* the requested range is in exactly one of three classes (stored in
\* page_results, counted in failed_pages, recorded as empty), so the three
\* numbers add up to max_pages; and total_posts is the sum of the lengths of
\* the post lists in page_results, under every interleaving.
C31_PagesAddUp ==
    run = "crawl_and_save_posts" =>
        /\ total_posts = C31_Sum(page_results, DOMAIN page_results)
        /\ DOMAIN page_results \cap C31_EmptyPages = {}
        /\ pcMain \in {"process", "returned"} =>
              /\ Cardinality(DOMAIN page_results) + failed_pages
                    + Cardinality(C31_EmptyPages) = Len(task_ids)
              /\ \A p \in Tasks :
                    \/ p \in DOMAIN page_results
                    \/ p \in C31_EmptyPages
                    \/ local[p].kind = "failed"

\* A crawl of two pages has returned with one page stored and one failed.
C31_Witness ==
    /\ run = "crawl_and_save_posts"
    /\ pcMain = "returned"
    /\ Len(task_ids) = 2
    /\ Cardinality(DOMAIN page_results) = 1
    /\ failed_pages = 1
    /\ C31_EmptyPages = {}
    /\ total_posts = 1

\* ---------------------------------------------------------------------- C32
\* C32: the page fetches of the pooled workers (search_page and fetch_page
\* calling get_posts(page=p)) leave the pagination state of the spider,
\* current_page and has_more, unchanged.
C32_PaginationFrame ==
    [][(run \in {"search_all", "crawl_and_save_posts"}) =>
          (current_page' = current_page /\ has_more' = has_more)]_vars

\* ---------------------------------------------------------------------- C33
\* C33: get_next_page returns None without fetching and leaves current_page
\* alone when has_more is false; otherwise it fetches page current_page and
\* adds exactly 1 to current_page if and only if the fetch succeeded; and
\* current_page decreases only in reset_pagination, which leaves the state at
\* (current_page = 1, has_more = TRUE).
C33_NextPage ==
    [][/\ (browse_pc = "next" /\ browse_pc' = "got" /\ ~has_more) =>
             (/\ browse_result' = NoNextPage
              /\ browse_fetched' = browse_fetched
              /\ current_page' = current_page)
       /\ (browse_pc = "next" /\ browse_pc' = "got" /\ has_more) =>
             (/\ browse_fetched' = Append(browse_fetched, current_page)
              /\ browse_result'.kind \in {"posts", "failed"}
              /\ (browse_result'.kind = "posts") <=> (current_page' = current_page + 1)
              /\ (browse_result'.kind = "failed") <=> (current_page' = current_page))
       /\ (current_page' < current_page) =>
             (browse_pc = "menu" /\ browse_pc' = "next"
                /\ current_page' = 1 /\ has_more' = TRUE)
       /\ (browse_pc = "menu" /\ browse_pc' = "next") =>
             (current_page' = 1 /\ has_more' = TRUE)
      ]_vars

\* A second browse: the first one fetched two pages with success, the last of
\* them clearing has_more, then got None without a fetch, and
\* reset_pagination brought the state back from page 3 to page 1.
C33_Witness ==
    /\ browse_pc = "next"
    /\ browse_fetched = <<1, 2>>
    /\ browse_result = NoNextPage
    /\ current_page = 1
    /\ has_more = TRUE

\* ---------------------------------------------------------------------- C34
\* C34: in batch_vote a save_record that cannot write its line does not stop
\* the drain: the step in which the write fails still moves next_output_idx
\* past that result, and a run in which writes failed still ends with every
\* result emitted in order and counted exactly once.
C34_DrainSurvivesSave ==
    /\ []((run = "batch_vote" /\ pcMain = "returned" /\ save_failed # {}) =>
            (/\ next_output_idx = Len(output_order)
             /\ printed = output_order
             /\ output_buffer = <<>>
             /\ success_count + already_count + failed_count = Len(task_ids)
             /\ Len(success_ids) = success_count
             /\ Len(already_ids) = already_count
             /\ \A i, j \in 1 .. Len(printed) : printed[i] = printed[j] => i = j))
    /\ [][(save_failed' # save_failed) =>
             (/\ next_output_idx' = next_output_idx + 1
              /\ save_failed' = save_failed \cup {output_order[next_output_idx']}
              /\ success_count' + already_count' + failed_count' = next_output_idx')]_vars

\* A finished run of three tasks in which the record of the first result could
\* not be written and those of the two later results could.
C34_Witness ==
    /\ run = "batch_vote"
    /\ pcMain = "returned"
    /\ Len(task_ids) = 3
    /\ save_failed = {output_order[1]}
    /\ printed = output_order
    /\ Len(records) = 3

\* ---------------------------------------------------------------------- C35
\* C35: when batch_vote or batch_vote_gui has called saver.finalize, the
\* success number and the failed number it passed add up to the total passed
\* with them.
C35_ReportAddsUp ==
    (run \in {"batch_vote", "batch_vote_gui"} /\ reported # <<>>) =>
        reported[1] + reported[2] = reported[3]

\* ---------------------------------------------------------------------- C36
\* C36: in the GUI app.token is non-None only for a token for which
\* test_token_valid has returned True, and a task that run_task started with
\* require_login is running only while app.token is non-None.
C36_TokenGate ==
    /\ app_token # NoToken => app_token \in validated
    /\ \A i \in DOMAIN gui_tasks :
          (gui_tasks[i].require_login /\ gui_tasks[i].pc = "running") =>
              app_token # NoToken

\* ---------------------------------------------------------------------- C37
\* C37: a token of length >= 20 that the direct-token login stored with
\* set_token is what load_login_state returns before the expiry time; after
\* the expiry time, and when the file has been cleared, it returns None.
C37_RoundTrip ==
    [][(Len(loaded') = Len(loaded) + 1) =>
          (/\ (state_file.exists /\ Len(state_file.token) >= 20
                  /\ now < state_file.expire_time) =>
                 (loaded'[Len(loaded')] = Returned(state_file.token))
           /\ (~state_file.exists \/ now > state_file.expire_time) =>
                 (loaded'[Len(loaded')] = ReturnedNone))]_vars

\* ---------------------------------------------------------------------- C38
\* C38: whenever _log_buffer is non-empty a flush is scheduled, at most one
\* flush is scheduled at a time, every message passed to log is moved to
\* _log_lines exactly once and in the order it was logged, and so every logged
\* message is eventually displayed: a message that has been moved has been
\* shown in log_text, and every message logged is shown at some time.
C38_LogDelivered ==
    /\ [](/\ log_buffer # <<>> => log_update_scheduled
          /\ flush_events <= 1
          /\ moved \o log_buffer = [i \in 1 .. logged |-> i]
          /\ SeqToSet(moved) \subseteq displayed)
    /\ \A message \in 1 .. MaxMessages :
          (logged >= message) ~> (message \in displayed)

\* ---------------------------------------------------------------------- C39
\* C39: within one searcher, once get_user_full_info_cached(k) has returned a
\* value, every later call for k returns that same value and fetches nothing,
\* the placeholder of a failed fetch included. The first value returned for k
\* is the first dict fetched for k (obj = 1), and a call later than that return
\* finds k in user_cache: every lookup that finds k cached leaves fetches alone
\* and returns the first dict fetched.
C39_FirstValueKept ==
    [][(run = "search_all") =>
          \A p \in Tasks :
             (pc[p] = "cache" /\ pc'[p] # "cache"
                 /\ sloc[p].user_id \in DOMAIN user_cache) =>
                (/\ fetches' = fetches
                 /\ sloc'[p].full_info.id = sloc[p].user_id
                 /\ sloc'[p].full_info.obj = 1)]_vars

====
